---- MODULE Spec2Model ----
(***************************************************************************)
(* Model of cartable-numerique:                                            *)
(*   - the decoded-JSON value universe and the Python string helpers,      *)
(*   - _normalize_qcm, _answer_to_index and _parse_qcm_from_text           *)
(*     (app_gui.py),                                                       *)
(*   - the quiz session held by CartableApp (qcm_data, qcm_index,          *)
(*     qcm_user_answers, the radio-button variable and the three buttons)  *)
(*     with its handlers gui_generate_qcm, qcm_save_choice, qcm_prev,      *)
(*     qcm_next and qcm_finish,                                            *)
(*   - _extract_json and the decoding of a CV reply (ollama_client.py),    *)
(*   - the notes kept by storage.py.                                       *)
(*                                                                         *)
(* Text is a sequence of one-character strings.  A Python value is a       *)
(* tagged record [t |-> tag, v |-> payload]; a dict is the sequence of its *)
(* items in insertion order.  A raised exception is the value Raise(name). *)
(***************************************************************************)
EXTENDS Integers, Sequences, FiniteSets, TLC

VARIABLES
    qcm_data,          \* self.qcm_data: None or the normalized quiz
    qcm_index,         \* self.qcm_index
    qcm_user_answers,  \* self.qcm_user_answers: question index -> option index
    qcm_choice_var,    \* self.qcm_choice_var (tk.IntVar), -1 = nothing selected
    btn_prev,          \* state of self.btn_prev
    btn_next,          \* state of self.btn_next
    btn_finish,        \* state of self.btn_finish
    qcm_status,        \* self.qcm_status (tk.StringVar), as a record
    qcm_correction,    \* content of the self.qcm_correction text box
    messagebox,        \* dialogs shown by the handler that ran last
    notes_files,       \* storage.py: the files of NOTES_DIR, file name -> content
    index_notes,       \* storage.py: the "notes" list of index.json
    lastOp             \* history: the handler that ran last and how it ended

vars == <<qcm_data, qcm_index, qcm_user_answers, qcm_choice_var, btn_prev,
          btn_next, btn_finish, qcm_status, qcm_correction, messagebox, notes_files,
          index_notes, lastOp>>

session == <<qcm_data, qcm_index, qcm_user_answers>>

\* what storage.py keeps on disk
notes == <<notes_files, index_notes>>

-----------------------------------------------------------------------------
(* Python values *)

None == [t |-> "null", v |-> 0]
PyBool(b) == [t |-> "bool", v |-> b]
PyInt(n) == [t |-> "int", v |-> n]
PyStr(s) == [t |-> "str", v |-> s]
PyList(l) == [t |-> "list", v |-> l]
PyDict(items) == [t |-> "dict", v |-> items]
Item(k, val) == [k |-> k, val |-> val]
Raise(e) == [t |-> "raise", v |-> e]

IsNone(x) == x.t = "null"
IsRaise(x) == x.t = "raise"

\* isinstance(x, int): bool is a subclass of int
IsInstanceInt(x) == x.t \in {"int", "bool"}

\* the integer a Python int or bool counts as
IntOf(x) == IF x.t = "bool" THEN (IF x.v THEN 1 ELSE 0) ELSE x.v

\* bool(x)
Truthy(x) ==
    CASE x.t = "null" -> FALSE
      [] x.t = "bool" -> x.v
      [] x.t = "int" -> x.v # 0
      [] OTHER -> Len(x.v) > 0

\* a or b
Or(a, b) == IF Truthy(a) THEN a ELSE b

\* k in d
HasKey(d, k) == \E i \in 1..Len(d.v) : d.v[i].k = k

\* d.get(k)
Get(d, k) ==
    IF HasKey(d, k)
    THEN d.v[CHOOSE i \in 1..Len(d.v) : d.v[i].k = k].val
    ELSE None

\* d[k] = val
SetItem(d, k, val) ==
    IF HasKey(d, k)
    THEN PyDict([i \in 1..Len(d.v) |-> IF d.v[i].k = k THEN Item(k, val) ELSE d.v[i]])
    ELSE PyDict(Append(d.v, Item(k, val)))

-----------------------------------------------------------------------------
(* Characters and str methods *)

UpperLetters == <<"A", "B", "C", "D", "E", "F", "G", "H", "I", "J", "K", "L", "M",
                  "N", "O", "P", "Q", "R", "S", "T", "U", "V", "W", "X", "Y", "Z">>
LowerLetters == <<"a", "b", "c", "d", "e", "f", "g", "h", "i", "j", "k", "l", "m",
                  "n", "o", "p", "q", "r", "s", "t", "u", "v", "w", "x", "y", "z">>
AsciiDigits == <<"0", "1", "2", "3", "4", "5", "6", "7", "8", "9">>

\* LATIN CAPITAL and SMALL LETTER E WITH ACUTE (U+00C9, U+00E9)
EAcute == "E'"
eAcute == "e'"

\* SUPERSCRIPT TWO (U+00B2): str.isdigit() is True for it, int() rejects it
SuperscriptTwo == "^2"

Range(s) == {s[i] : i \in 1..Len(s)}
Whitespace == {" ", "\n", "\t", "\r"}

IsAsciiDigit(c) == c \in Range(AsciiDigits)
DigitVal(c) == (CHOOSE i \in 1..Len(AsciiDigits) : AsciiDigits[i] = c) - 1

\* a character of the regex class \w
IsWordChar(c) ==
    c \in Range(UpperLetters) \cup Range(LowerLetters) \cup Range(AsciiDigits)
          \cup {"_", SuperscriptTwo, EAcute, eAcute}

\* str.upper(), one character
UpperChar(c) ==
    IF c \in Range(LowerLetters)
    THEN UpperLetters[CHOOSE i \in 1..Len(LowerLetters) : LowerLetters[i] = c]
    ELSE c

\* mutant of upper: the text is searched in the case it came in
upper_forgotten(s) == s

\* str.upper()
upper(s) == [i \in 1..Len(s) |-> UpperChar(s[i])]

RECURSIVE lstrip(_)
lstrip(s) == IF s # <<>> /\ Head(s) \in Whitespace THEN lstrip(Tail(s)) ELSE s

RECURSIVE rstrip(_)
rstrip(s) ==
    IF s # <<>> /\ s[Len(s)] \in Whitespace THEN rstrip(SubSeq(s, 1, Len(s) - 1)) ELSE s

\* str.strip()
strip(s) == rstrip(lstrip(s))

\* str.isdigit()
isdigit(s) == s # <<>> /\ \A i \in 1..Len(s) : IsAsciiDigit(s[i]) \/ s[i] = SuperscriptTwo

\* int(s) of a string that passed isdigit(): ValueError on a non-decimal digit
RECURSIVE DecimalValue(_)
DecimalValue(s) ==
    IF s = <<>> THEN 0 ELSE 10 * DecimalValue(SubSeq(s, 1, Len(s) - 1)) + DigitVal(s[Len(s)])

int(s) ==
    IF \A i \in 1..Len(s) : IsAsciiDigit(s[i]) THEN PyInt(DecimalValue(s)) ELSE Raise("ValueError")

\* the decimal digits of a natural number
RECURSIVE NatDigits(_)
NatDigits(n) ==
    IF n < 10 THEN <<AsciiDigits[n + 1]>> ELSE NatDigits(n \div 10) \o <<AsciiDigits[(n % 10) + 1]>>

\* repr(x) and str(x); a dict key prints as one token
RECURSIVE repr(_)
RECURSIVE ReprJoin(_)
RECURSIVE str(_)
str(x) ==
    CASE x.t = "str" -> x.v
      [] x.t = "null" -> <<"N", "o", "n", "e">>
      [] x.t = "bool" -> IF x.v THEN <<"T", "r", "u", "e">> ELSE <<"F", "a", "l", "s", "e">>
      [] x.t = "int" -> IF x.v < 0 THEN <<"-">> \o NatDigits(-x.v) ELSE NatDigits(x.v)
      [] x.t = "list" -> <<"[">> \o ReprJoin([i \in 1..Len(x.v) |-> repr(x.v[i])]) \o <<"]">>
      [] x.t = "dict" ->
            <<"{">> \o ReprJoin([i \in 1..Len(x.v) |->
                          <<"'", x.v[i].k, "'", ":", " ">> \o repr(x.v[i].val)]) \o <<"}">>

repr(x) == IF x.t = "str" THEN <<"'">> \o x.v \o <<"'">> ELSE str(x)

ReprJoin(parts) ==
    IF parts = <<>> THEN <<>>
    ELSE IF Len(parts) = 1 THEN parts[1]
    ELSE parts[1] \o <<",", " ">> \o ReprJoin(Tail(parts))

-----------------------------------------------------------------------------
(* _normalize_qcm *)

OptionLetters == <<"A", "B", "C", "D", "E", "F">>

\* "<k>) <value>" of each item of a mapping, in the order given
StrippedOptionsOfItems(items) ==
    [i \in 1..Len(items) |-> PyStr(<<items[i].k, ")", " ">> \o strip(str(items[i].val)))]

\* mutant of OrderedOptions: the entries in the mapping's own key order
OrderedOptionsInKeyOrder(opts, ks) ==
    StrippedOptionsOfItems(SelectSeq(opts.v, LAMBDA it : it.k \in Range(ks)))

\* lines 128-133: options dict {"A": "..."} -> list of "A) ..."
RECURSIVE OrderedOptions(_, _)
OrderedOptions(opts, ks) ==
    IF ks = <<>> THEN <<>>
    ELSE (IF HasKey(opts, Head(ks))
          THEN <<PyStr(<<Head(ks), ")", " ">> \o strip(str(Get(opts, Head(ks)))))>>
          ELSE <<>>) \o OrderedOptions(opts, Tail(ks))

\* line 136: [str(x).strip() for x in opts if str(x).strip()]
RECURSIVE StrippedOptions(_)
StrippedOptions(xs) ==
    IF xs = <<>> THEN <<>>
    ELSE (IF strip(str(Head(xs))) # <<>> THEN <<PyStr(strip(str(Head(xs))))>> ELSE <<>>)
         \o StrippedOptions(Tail(xs))

\* lines 128-133: a dict of options becomes the list of its lettered entries
OptionsAsList(opts) ==
    IF opts.t = "dict" THEN PyList(OrderedOptions(opts, OptionLetters)) ELSE opts

\* lines 135-136: a list of options is stripped, anything else is kept as it is
StripOptionList(opts) ==
    IF opts.t = "list" THEN PyList(StrippedOptions(opts.v)) ELSE opts

\* lines 125-136: the options of one question
QuestionOptions(q) ==
    StripOptionList(OptionsAsList(
        Or(Or(Or(Get(q, "options"), Get(q, "choices")), Get(q, "answers")), PyList(<<>>))))

\* x.strip() of a value that need not be a str
StripMethod(x) == IF x.t = "str" THEN PyStr(strip(x.v)) ELSE Raise("AttributeError")

\* len(x)
len(x) == IF x.t \in {"str", "list", "dict"} THEN PyInt(Len(x.v)) ELSE Raise("TypeError")

Skip == [t |-> "skip", v |-> 0]

\* lines 141-149, with the exceptions of lines 124, 139 and 141: Skip
\* (continue), the appended question, or the exception that leaves the function
KeepQuestion(question, opts, ans, exp) ==
    IF IsRaise(question) THEN question
    ELSE IF IsRaise(exp) THEN exp
    ELSE IF ~Truthy(question) THEN Skip
    ELSE IF IsRaise(len(opts)) THEN len(opts)
    ELSE IF len(opts).v < 2 THEN Skip
    ELSE PyDict(<<Item("question", question), Item("options", opts),
                  Item("answer", ans), Item("explanation", exp)>>)

\* lines 122-149, one pass of the loop body
NormalizeQuestion(q) ==
    IF q.t # "dict" THEN Skip
    ELSE KeepQuestion(
            StripMethod(Or(Or(Get(q, "question"), Get(q, "q")), PyStr(<<>>))),
            QuestionOptions(q),
            Or(Or(Get(q, "answer"), Get(q, "correct")), Get(q, "correct_answer")),
            StripMethod(Or(Or(Get(q, "explanation"), Get(q, "exp")), PyStr(<<>>))))

\* lines 120-149: the loop over qs, out being the questions kept so far and r
\* the outcome of the pass on the question before qs
RECURSIVE NormalizeLoop(_, _)
RECURSIVE NormalizeStep(_, _, _)
NormalizeStep(r, qs, out) ==
    IF IsRaise(r) THEN r
    ELSE NormalizeLoop(qs, IF r = Skip THEN out ELSE Append(out, r))

NormalizeLoop(qs, out) ==
    IF qs = <<>> THEN PyList(out)
    ELSE NormalizeStep(NormalizeQuestion(Head(qs)), Tail(qs), out)

\* lines 151-154
NormalizeResult(out) ==
    IF IsRaise(out) THEN out
    ELSE IF out.v = <<>> THEN None
    ELSE PyDict(<<Item("questions", out)>>)

\* lines 116-154
NormalizeQuestions(qs) ==
    IF qs.t # "list" \/ qs.v = <<>> THEN None ELSE NormalizeResult(NormalizeLoop(qs.v, <<>>))

\* lines 113-114: data["questions"] = data["quiz"] when only "quiz" is there
QuizAsQuestions(data) ==
    IF ~HasKey(data, "questions") /\ HasKey(data, "quiz")
    THEN SetItem(data, "questions", Get(data, "quiz"))
    ELSE data

\* lines 110-154
NormalizeDict(data) ==
    IF data.t # "dict" THEN None
    ELSE NormalizeQuestions(Get(QuizAsQuestions(data), "questions"))

\* lines 107-108: a list is wrapped as {"questions": data}
WrapList(data) ==
    IF data.t = "list" THEN PyDict(<<Item("questions", data)>>) ELSE data

_normalize_qcm(data) ==
    IF IsNone(data) THEN None ELSE NormalizeDict(WrapList(data))

-----------------------------------------------------------------------------
(* _answer_to_index *)

\* re.search(r"\b([A-F])\b", s): positions of s holding a stand-alone letter A-F
LetterMatches(s) ==
    {i \in 1..Len(s) :
        /\ s[i] \in Range(OptionLetters)
        /\ (i = 1 \/ ~IsWordChar(s[i - 1]))
        /\ (i = Len(s) \/ ~IsWordChar(s[i + 1]))}

Min(S) == CHOOSE x \in S : \A y \in S : x <= y

\* ord(c) - ord("A") for a letter A-F
LetterIndex(c) == (CHOOSE i \in 1..Len(OptionLetters) : OptionLetters[i] = c) - 1

\* lines 254-255 and 259-260: idx if 0 <= idx < n else None
IndexOrNone(idx, n) == IF 0 <= idx /\ idx < n THEN PyInt(idx) ELSE None

\* mutant of DigitsToIndex: the 1-based reading tried first
DigitsToIndexOneBasedFirst(val, n) ==
    IF IsRaise(val) THEN val
    ELSE IF 1 <= val.v /\ val.v <= n THEN PyInt(val.v - 1)
    ELSE IF 0 <= val.v /\ val.v < n THEN val
    ELSE None

\* lines 258-264, val being int(s) or its ValueError
DigitsToIndex(val, n) ==
    IF IsRaise(val) THEN val
    ELSE IF 0 <= val.v /\ val.v < n THEN val
    ELSE IF 1 <= val.v /\ val.v <= n THEN PyInt(val.v - 1)
    ELSE None

\* lines 249-264, s being str(answer).strip()
TextToIndex(s, n) ==
    IF s = <<>> THEN None
    ELSE IF LetterMatches(upper(s)) # {}
    THEN IndexOrNone(LetterIndex(upper(s)[Min(LetterMatches(upper(s)))]), n)
    ELSE IF isdigit(s) THEN DigitsToIndex(int(s), n)
    ELSE None

\* mutant of _answer_to_index: lines 245-246 forgotten, an integer is read as text
_answer_to_index_as_text(answer, options) ==
    IF IsNone(answer) THEN None
    ELSE TextToIndex(strip(str(answer)), Len(options.v))

\* the result is None, an index (the int or bool given, or a new int), or the
\* ValueError of int(s)
_answer_to_index(answer, options) ==
    IF IsNone(answer) THEN None
    ELSE IF IsInstanceInt(answer)
    THEN (IF 0 <= IntOf(answer) /\ IntOf(answer) < Len(options.v) THEN answer ELSE None)
    ELSE TextToIndex(strip(str(answer)), Len(options.v))

-----------------------------------------------------------------------------
(* The quiz session of CartableApp *)

\* len(self.qcm_data["questions"])
NumQuestions(data) == Len(Get(data, "questions").v)

\* self.qcm_data["questions"][idx], idx counted from 0
QuestionAt(data, idx) == Get(data, "questions").v[idx + 1]

\* options[i] of a list or of a str, i counted from 0
OptionAt(options, i) ==
    IF options.t = "str" THEN PyStr(<<options.v[i + 1]>>) ELSE options.v[i + 1]

\* the empty dict of qcm_user_answers
NoAnswers == [i \in {} |-> 0]

\* mutant of AnswerGet: the recorded answer is never found
AnswerGetDefault(answers, idx, default) == default

\* self.qcm_user_answers.get(idx, default)
AnswerGet(answers, idx, default) == IF idx \in DOMAIN answers THEN answers[idx] ELSE default

\* mutant of qcm_save_choice: the dict is replaced instead of updated
qcm_save_choice_replacing(answers, index, val) ==
    IF val >= 0 THEN [i \in {index} |-> val] ELSE answers

\* mutant of qcm_save_choice: the answer is recorded under the displayed number
qcm_save_choice_numbered(answers, index, val) ==
    IF val >= 0
    THEN [i \in DOMAIN answers \cup {index + 1} |-> IF i = index + 1 THEN val ELSE answers[i]]
    ELSE answers

\* lines 907-910: the answers dict after qcm_save_choice
qcm_save_choice(answers, index, val) ==
    IF val >= 0
    THEN [i \in DOMAIN answers \cup {index} |-> IF i = index THEN val ELSE answers[i]]
    ELSE answers

\* lines 871-879: the states of <<btn_prev, btn_next, btn_finish>>
_set_qcm_enabled(enabled, data, index) ==
    IF enabled /\ Truthy(data)
    THEN <<IF index = 0 THEN "disabled" ELSE "normal",
           IF index < NumQuestions(data) - 1 THEN "normal" ELSE "disabled",
           "normal">>
    ELSE <<"disabled", "disabled", "disabled">>

\* mutant of RenderedChoice: the answer of the displayed number, not the index
RenderedChoiceOfNumber(answers, index) == AnswerGet(answers, index + 1, -1)

\* line 893: the radio-button variable set by qcm_render_question
RenderedChoice(answers, index) == AnswerGet(answers, index, -1)

\* lines 916-917
PrevIndex(index) == IF index > 0 THEN index - 1 ELSE index

\* mutant of NextIndex: wraps around to the first question
NextIndexWraps(index, total) == (index + 1) % total

\* lines 924-925
NextIndex(index, total) == IF index < total - 1 THEN index + 1 ELSE index

\* line 943: ok = (correct_idx is not None and user_idx == correct_idx)
IsCorrect(correct_idx, answers, idx) ==
    /\ ~IsNone(correct_idx)
    /\ idx \in DOMAIN answers
    /\ answers[idx] = IntOf(correct_idx)

\* lines 947-951: what the correction shows for one question
CorrectionEntry(q, correct_idx, answers, idx) ==
    [question |-> Get(q, "question"),
     chosen |-> IF idx \in DOMAIN answers
                THEN OptionAt(Get(q, "options"), answers[idx]) ELSE PyStr(<<"(aucune)">>),
     correct |-> IF ~IsNone(correct_idx)
                 THEN OptionAt(Get(q, "options"), IntOf(correct_idx))
                 ELSE PyStr(<<"(inconnue)">>),
     explanation |-> Get(q, "explanation")]

\* lines 935-952: the loop of qcm_finish from question idx on; the score and
\* the lines, or the exception _answer_to_index raised
RECURSIVE FinishLoop(_, _, _, _, _)
RECURSIVE FinishStep(_, _, _, _, _, _, _)
FinishStep(data, answers, idx, score, lines, q, correct_idx) ==
    IF IsRaise(correct_idx) THEN correct_idx
    ELSE FinishLoop(data, answers, idx + 1,
                    IF IsCorrect(correct_idx, answers, idx) THEN score + 1 ELSE score,
                    Append(lines, CorrectionEntry(q, correct_idx, answers, idx)))

\* line 940: correct_idx = _answer_to_index(q.get("answer"), options)
FinishQuestion(data, answers, idx, score, lines, q) ==
    FinishStep(data, answers, idx, score, lines, q,
               _answer_to_index(Get(q, "answer"), Get(q, "options")))

FinishLoop(data, answers, idx, score, lines) ==
    IF idx >= NumQuestions(data) THEN [t |-> "report", score |-> score, lines |-> lines]
    ELSE FinishQuestion(data, answers, idx, score, lines, QuestionAt(data, idx))

\* the values of self.qcm_status
StatusNone == [kind |-> "Aucun QCM genere"]
StatusGenerated(n) == [kind |-> "QCM genere", n |-> n]
StatusFinished(score, total) == [kind |-> "Termine", score |-> score, total |-> total]

\* the content of self.qcm_correction
CorrectionPlaceholder == [kind |-> "placeholder"]
CorrectionLines(lines) == [kind |-> "lines", lines |-> lines]

-----------------------------------------------------------------------------
(* Inputs: what the model replies to a generation *)

MaxQuestions == 2

T(c) == PyStr(<<c>>)

\* question dicts as json.loads may return them
QuestionPool ==
    << PyDict(<<Item("question", T("p")), Item("options", PyList(<<T("x"), T("y")>>)),
                Item("answer", T("B"))>>),
       PyDict(<<Item("q", PyStr(<<" ", "q", " ">>)),
                Item("choices", PyDict(<<Item("B", T("y")), Item("A", T("x")),
                                         Item("C", T("z"))>>)),
                Item("correct", T("1")), Item("exp", T("e"))>>),
       PyDict(<<Item("question", T("r")), Item("options", PyStr(<<"a", "b">>)),
                Item("answer", PyBool(TRUE))>>),
       PyDict(<<Item("question", T("s")),
                Item("options", PyList(<<T("x"), T("y"), T("z")>>)),
                Item("correct_answer", PyInt(3))>>),
       PyDict(<<Item("question", T("t")), Item("answers", PyList(<<T("x"), PyInt(7)>>))>>),
       PyDict(<<Item("question", T("u")), Item("options", PyList(<<T("x"), T("y")>>)),
                Item("answer", T(SuperscriptTwo))>>) >>

\* n questions of the pool, taken in a circle from the one at start
PoolSlice(start, n) ==
    [i \in 1..n |-> QuestionPool[((start + i - 2) % Len(QuestionPool)) + 1]]

\* questions that normalization skips, and questions on which it raises
EmptyTextQuestion == PyDict(<<Item("question", PyStr(<<" ">>)),
                              Item("options", PyList(<<T("x"), T("y")>>))>>)
OneOptionQuestion == PyDict(<<Item("question", T("p")), Item("options", PyList(<<T("x")>>))>>)
NumericTextQuestion == PyDict(<<Item("question", PyInt(5)),
                                Item("options", PyList(<<T("x"), T("y")>>))>>)
NumericOptionsQuestion == PyDict(<<Item("question", T("p")), Item("options", PyInt(5))>>)

\* the first questions of the quizzes that are generated
PoolStarts == {1, 4, 6}

\* decoded JSON values (what _extract_json_obj, lines 71-99, returns) that
\* normalize to a quiz
QuizPayloads ==
    {PyDict(<<Item("quiz", PyList(<<OneOptionQuestion, QuestionPool[1], PyInt(5)>>))>>)}
    \cup {PyDict(<<Item("questions", PyList(PoolSlice(start, n)))>>) :
             start \in PoolStarts, n \in 1..MaxQuestions}

\* a decoded JSON value all of whose questions are skipped, and one on which
\* normalization raises
SkippedPayload == PyList(<<EmptyTextQuestion, PyInt(5), OneOptionQuestion>>)
RaisingPayload == PyList(<<QuestionPool[1], NumericTextQuestion>>)

\* what _parse_qcm_from_text (lines 157-235) returns for a text with one
\* block: its question, the answer a letter
ParsedQuiz ==
    PyDict(<<Item("questions", PyList(<<
        PyDict(<<Item("question", PyStr(<<"(Question)">>)),
                 Item("options", PyList(<<PyStr(<<"A", ")", " ", "x">>),
                                          PyStr(<<"B", ")", " ", "y">>)>>)),
                 Item("answer", T("A")), Item("explanation", PyStr(<<>>))>>)>>))>>)

RawReply(d, p) == [kind |-> "raw", decoded |-> d, parsed |-> p]

\* the outcome of generate_qcm_quiz (ollama_client.py lines 143-146): ask_ollama
\* raises RuntimeError, or returns a raw text, here given by what
\* _extract_json_obj (decoded) and _parse_qcm_from_text (parsed) make of it
Replies ==
    {[kind |-> "raises", decoded |-> None, parsed |-> None]}
    \cup {RawReply(d, None) : d \in QuizPayloads \cup {None, SkippedPayload, PyDict(<<Item("quiz", PyList(<<NumericOptionsQuestion>>))>>)}}
    \cup {RawReply(d, ParsedQuiz) : d \in {None, SkippedPayload, RaisingPayload,
                                     PyList(<<QuestionPool[1]>>)}}

-----------------------------------------------------------------------------
(* Handlers *)

\* lines 847-851: the fallback on the text parser, text being its normalized
\* result
FromText(text) ==
    IF IsRaise(text) THEN text
    ELSE IF Truthy(text) THEN text
    ELSE Raise("ValueError")

\* lines 844-851, json being the normalized result of the JSON path
FromJson(json, reply) ==
    IF IsRaise(json) THEN json
    ELSE IF Truthy(json) THEN json
    ELSE FromText(_normalize_qcm(reply.parsed))

\* lines 841-851: the quiz to install, or the exception raised
GenerateData(reply) ==
    IF reply.kind = "raises" THEN Raise("RuntimeError")
    ELSE FromJson(_normalize_qcm(reply.decoded), reply)

\* GenerateData of every reply, evaluated once
GeneratedOf == [reply \in Replies |-> GenerateData(reply)]

\* the state a generation starts from, kept in lastOp
Before ==
    [held |-> Truthy(qcm_data), answered |-> Cardinality(DOMAIN qcm_user_answers),
     status |-> qcm_status.kind]

Init ==
    /\ qcm_data = None
    /\ qcm_index = 0
    /\ qcm_user_answers = NoAnswers
    /\ qcm_choice_var = -1
    /\ btn_prev = "disabled"
    /\ btn_next = "disabled"
    /\ btn_finish = "disabled"
    /\ qcm_status = StatusNone
    /\ qcm_correction = CorrectionPlaceholder
    /\ messagebox = <<>>
    /\ lastOp = [op |-> "__init__"]
    /\ notes_files = <<>>
    /\ index_notes = <<>>

\* the config(state=...) calls of _set_qcm_enabled
SetButtons(states) ==
    /\ btn_prev' = states[1]
    /\ btn_next' = states[2]
    /\ btn_finish' = states[3]

\* mutant of InstallQuiz: line 855 forgotten
InstallQuizKeepingAnswers(data) ==
    /\ qcm_data' = data
    /\ qcm_index' = 0
    /\ qcm_status' = StatusGenerated(NumQuestions(data))
    /\ qcm_choice_var' = -1
    /\ SetButtons(_set_qcm_enabled(TRUE, data, 0))
    /\ qcm_correction' = CorrectionPlaceholder
    /\ messagebox' = <<>>
    /\ UNCHANGED qcm_user_answers

\* lines 853-864: the new quiz is installed and its first question rendered
InstallQuiz(data) ==
    /\ qcm_data' = data
    /\ qcm_index' = 0
    /\ qcm_user_answers' = NoAnswers
    /\ qcm_status' = StatusGenerated(NumQuestions(data))
    /\ qcm_choice_var' = RenderedChoice(NoAnswers, 0)
    /\ SetButtons(_set_qcm_enabled(TRUE, data, 0))
    /\ qcm_correction' = CorrectionPlaceholder
    /\ messagebox' = <<>>

\* mutant of GenerationFailed: the failure also drops the quiz held
GenerationFailedDropsQuiz ==
    /\ qcm_status' = StatusNone
    /\ SetButtons(_set_qcm_enabled(FALSE, qcm_data, qcm_index))
    /\ messagebox' = <<"showerror Erreur QCM">>
    /\ qcm_data' = None
    /\ qcm_index' = 0
    /\ qcm_user_answers' = NoAnswers
    /\ UNCHANGED <<qcm_choice_var, qcm_correction>>

\* lines 866-869: the except branch
GenerationFailed ==
    /\ qcm_status' = StatusNone
    /\ SetButtons(_set_qcm_enabled(FALSE, qcm_data, qcm_index))
    /\ messagebox' = <<"showerror Erreur QCM">>
    /\ UNCHANGED <<qcm_data, qcm_index, qcm_user_answers, qcm_choice_var, qcm_correction>>

\* lines 841-869, data being the quiz to install or the exception raised
GenerateFrom(reply, data) ==
    /\ IF IsRaise(data) THEN GenerationFailed ELSE InstallQuiz(data)
    /\ lastOp' = [op |-> "gui_generate_qcm",
                  outcome |-> IF IsRaise(data) THEN "failed" ELSE "generated",
                  file |-> "text", reply |-> reply,
                  before |-> IF IsRaise(data) THEN None ELSE Before]
    /\ UNCHANGED notes

gui_generate_qcm ==
    \/ \E file \in {"no_path", "not_found", "empty"} :
          /\ messagebox' = <<CASE file = "no_path" -> "showwarning Attention"
                               [] file = "not_found" -> "showerror Erreur"
                               [] file = "empty" -> "showwarning Attention">>
          /\ lastOp' = [op |-> "gui_generate_qcm", outcome |-> "returned", file |-> file]
          /\ UNCHANGED <<qcm_data, qcm_index, qcm_user_answers, qcm_choice_var, btn_prev,
                         btn_next, btn_finish, qcm_status, qcm_correction, notes>>
    \/ /\ GenerationFailed
       /\ lastOp' = [op |-> "gui_generate_qcm", outcome |-> "failed", file |-> "unreadable"]
       /\ UNCHANGED notes
    \/ \E reply \in Replies : GenerateFrom(reply, GeneratedOf[reply])

\* a click on the radio button of option k: Tk sets qcm_choice_var, then runs
\* the command qcm_save_choice (lines 895-910)
radio_click ==
    /\ Truthy(qcm_data)
    /\ \E k \in 0..(Len(Get(QuestionAt(qcm_data, qcm_index), "options").v) - 1) :
          /\ qcm_choice_var' = k
          /\ qcm_user_answers' = qcm_save_choice(qcm_user_answers, qcm_index, k)
    /\ messagebox' = <<>>
    /\ lastOp' = [op |-> "radio_click", outcome |-> "saved", k |-> qcm_choice_var']
    /\ UNCHANGED <<qcm_data, qcm_index, btn_prev, btn_next, btn_finish, qcm_status,
                   qcm_correction, notes>>

\* lines 881-905, after the index moved to newIndex
qcm_render_question(answers, newIndex) ==
    /\ qcm_choice_var' = RenderedChoice(answers, newIndex)
    /\ SetButtons(_set_qcm_enabled(TRUE, qcm_data, newIndex))

\* lines 912-918
qcm_prev ==
    /\ messagebox' = <<>>
    /\ UNCHANGED notes
    /\ IF ~Truthy(qcm_data)
       THEN /\ lastOp' = [op |-> "qcm_prev", outcome |-> "no quiz"]
            /\ UNCHANGED <<qcm_data, qcm_index, qcm_user_answers, qcm_choice_var, btn_prev,
                           btn_next, btn_finish, qcm_status, qcm_correction>>
       ELSE /\ qcm_user_answers' = qcm_save_choice(qcm_user_answers, qcm_index, qcm_choice_var)
            /\ qcm_index' = PrevIndex(qcm_index)
            /\ qcm_render_question(qcm_user_answers', qcm_index')
            /\ lastOp' = [op |-> "qcm_prev", outcome |-> "rendered", from |-> qcm_index]
            /\ UNCHANGED <<qcm_data, qcm_status, qcm_correction>>

\* lines 920-926
qcm_next ==
    /\ messagebox' = <<>>
    /\ UNCHANGED notes
    /\ IF ~Truthy(qcm_data)
       THEN /\ lastOp' = [op |-> "qcm_next", outcome |-> "no quiz"]
            /\ UNCHANGED <<qcm_data, qcm_index, qcm_user_answers, qcm_choice_var, btn_prev,
                           btn_next, btn_finish, qcm_status, qcm_correction>>
       ELSE /\ qcm_user_answers' = qcm_save_choice(qcm_user_answers, qcm_index, qcm_choice_var)
            /\ qcm_index' = NextIndex(qcm_index, NumQuestions(qcm_data))
            /\ qcm_render_question(qcm_user_answers', qcm_index')
            /\ lastOp' = [op |-> "qcm_next", outcome |-> "rendered", from |-> qcm_index]
            /\ UNCHANGED <<qcm_data, qcm_status, qcm_correction>>

\* lines 954-959, r being the outcome of the loop: an exception leaves the
\* handler before the status and the correction are written
FinishReport(r) ==
    IF IsRaise(r)
    THEN /\ lastOp' = [op |-> "qcm_finish", outcome |-> "raised"]
         /\ UNCHANGED <<qcm_status, qcm_correction>>
    ELSE /\ lastOp' = [op |-> "qcm_finish", outcome |-> "reported"]
         /\ qcm_status' = StatusFinished(r.score, NumQuestions(qcm_data))
         /\ qcm_correction' = CorrectionLines(r.lines)

\* lines 931-959: qcm_finish with a quiz held
FinishHeld ==
    /\ qcm_user_answers' = qcm_save_choice(qcm_user_answers, qcm_index, qcm_choice_var)
    /\ FinishReport(FinishLoop(qcm_data, qcm_user_answers', 0, 0, <<>>))
    /\ UNCHANGED <<qcm_data, qcm_index, qcm_choice_var, btn_prev, btn_next, btn_finish>>

\* mutant of FinishNoQuiz: the guard forgotten, a score of 0/0 is shown
FinishNoQuizReports ==
    /\ lastOp' = [op |-> "qcm_finish", outcome |-> "reported"]
    /\ qcm_status' = StatusFinished(0, 0)
    /\ qcm_correction' = CorrectionLines(<<>>)
    /\ UNCHANGED <<qcm_data, qcm_index, qcm_user_answers, qcm_choice_var, btn_prev,
                   btn_next, btn_finish>>

\* lines 929-930: qcm_finish with no quiz held
FinishNoQuiz ==
    /\ lastOp' = [op |-> "qcm_finish", outcome |-> "no quiz"]
    /\ UNCHANGED <<qcm_data, qcm_index, qcm_user_answers, qcm_choice_var, btn_prev,
                   btn_next, btn_finish, qcm_status, qcm_correction>>

\* lines 928-959
qcm_finish ==
    /\ messagebox' = <<>>
    /\ UNCHANGED notes
    /\ IF ~Truthy(qcm_data) THEN FinishNoQuiz ELSE FinishHeld

Next == gui_generate_qcm \/ radio_click \/ qcm_prev \/ qcm_next \/ qcm_finish

Spec == Init /\ [][Next]_vars

-----------------------------------------------------------------------------
(* Properties *)

Held == Truthy(qcm_data)
Total == NumQuestions(qcm_data)
HandlerRan(op) == lastOp'.op = op

\* C1: while a quiz is held qcm_index stays in 0..len(questions)-1; qcm_next
\* adds one except at the last index, where the index is unchanged; qcm_prev
\* subtracts one except at index 0, where the index is unchanged.
C1_IndexWithinBounds ==
    /\ [](Held => qcm_index \in 0..(Total - 1))
    /\ [][HandlerRan("qcm_next") /\ Held =>
            qcm_index' = IF qcm_index = Total - 1 THEN qcm_index ELSE qcm_index + 1]_vars
    /\ [][HandlerRan("qcm_prev") /\ Held =>
            qcm_index' = IF qcm_index = 0 THEN qcm_index ELSE qcm_index - 1]_vars

\* qcm_next ran at the last index of a quiz of several questions
C1_NextAtLastIndex ==
    /\ Held /\ Total >= 2
    /\ lastOp.op = "qcm_next" /\ lastOp.from = Total - 1 /\ qcm_index = Total - 1

\* C2: a step of qcm_prev or qcm_next leaves the recorded answer of every
\* question as it was: none is lost, moved to another index or overwritten.
C2_NavigationKeepsAnswers ==
    [][HandlerRan("qcm_prev") \/ HandlerRan("qcm_next") =>
          qcm_user_answers' = qcm_user_answers]_vars

\* every question is answered and navigation moved to another question
C2_MovedWithAllAnswered ==
    /\ Held /\ Total >= 2
    /\ DOMAIN qcm_user_answers = 0..(Total - 1)
    /\ lastOp.op \in {"qcm_prev", "qcm_next"} /\ lastOp.from # qcm_index

\* C3: after a successful generation the session is the new quiz, at index 0,
\* with no recorded answer, whatever was held before.
C3_GenerationResetsSession ==
    (lastOp.op = "gui_generate_qcm" /\ lastOp.outcome = "generated") =>
        /\ Held
        /\ qcm_data \in {_normalize_qcm(lastOp.reply.decoded),
                         _normalize_qcm(lastOp.reply.parsed)}
        /\ qcm_index = 0
        /\ qcm_user_answers = NoAnswers

\* a quiz was generated over a finished session that had recorded answers
C3_GeneratedOverAnsweredQuiz ==
    /\ lastOp.op = "gui_generate_qcm" /\ lastOp.outcome = "generated"
    /\ lastOp.before.held /\ lastOp.before.answered >= 1
    /\ lastOp.before.status = "Termine"

\* C4: a failed generation leaves qcm_data, qcm_index and qcm_user_answers
\* exactly as they were.
C4_FailedGenerationKeepsSession ==
    [][HandlerRan("gui_generate_qcm") /\ lastOp'.outcome = "failed" =>
          UNCHANGED session]_vars

\* a generation failed on the model's reply while an answered quiz was held
C4_FailedWithQuizHeld ==
    /\ lastOp.op = "gui_generate_qcm" /\ lastOp.outcome = "failed" /\ lastOp.file = "text"
    /\ Held /\ qcm_index > 0 /\ qcm_user_answers # NoAnswers

\* C5: selecting option k while question i is displayed sets answers[i] = k
\* and changes neither the index, nor the quiz, nor the answer of another
\* question.
C5_SelectRecordsOnlyCurrent ==
    [][HandlerRan("radio_click") =>
          /\ DOMAIN qcm_user_answers' = DOMAIN qcm_user_answers \cup {qcm_index}
          /\ qcm_user_answers'[qcm_index] = lastOp'.k
          /\ \A j \in DOMAIN qcm_user_answers \ {qcm_index} :
                qcm_user_answers'[j] = qcm_user_answers[j]
          /\ UNCHANGED <<qcm_data, qcm_index>>]_vars

\* an option was selected while another question already had an answer
C5_SelectedWithOtherAnswers ==
    /\ lastOp.op = "radio_click"
    /\ \E j \in DOMAIN qcm_user_answers : j # qcm_index
    /\ qcm_index \in DOMAIN qcm_user_answers /\ qcm_user_answers[qcm_index] = lastOp.k

\* the resolved correct index of question i of the quiz held
Resolved(i) ==
    _answer_to_index(Get(QuestionAt(qcm_data, i), "answer"),
                     Get(QuestionAt(qcm_data, i), "options"))

\* question i has a known correct index and the user recorded that index
AnsweredCorrectly(i) ==
    /\ IsInstanceInt(Resolved(i))
    /\ i \in DOMAIN qcm_user_answers
    /\ qcm_user_answers[i] = IntOf(Resolved(i))

CorrectCount == Cardinality({i \in 0..(Total - 1) : AnsweredCorrectly(i)})

\* C6: after qcm_finish on a held quiz the status reports the number of
\* questions whose resolved correct index is known and equals the recorded
\* index, out of the number of questions.
C6_ScoreIsCorrectCount ==
    (lastOp.op = "qcm_finish" /\ Held) => qcm_status = StatusFinished(CorrectCount, Total)

\* C7: qcm_finish reports score = number of questions when every question is
\* answered correctly, and score 0 with "(aucune)" chosen for every question
\* when no answer is recorded.
C7_AllCorrectAndNoneAnswered ==
    (lastOp.op = "qcm_finish" /\ Held) =>
        /\ (\A i \in 0..(Total - 1) : AnsweredCorrectly(i)) =>
              qcm_status = StatusFinished(Total, Total)
        /\ qcm_user_answers = NoAnswers =>
              /\ qcm_status = StatusFinished(0, Total)
              /\ qcm_correction.kind = "lines"
              /\ Len(qcm_correction.lines) = Total
              /\ \A i \in 1..Total : qcm_correction.lines[i].chosen = PyStr(<<"(aucune)">>)

\* C8: qcm_finish changes neither the index nor the answers; after qcm_finish
\* a selection is recorded and qcm_next and qcm_prev move the index; whenever
\* qcm_finish was the handler that ran last, be it for the first time or again,
\* the status reports the score of the answers as they stand.
C8_FinishRepeatable ==
    /\ [][HandlerRan("qcm_finish") => UNCHANGED <<qcm_index, qcm_user_answers>>]_vars
    /\ [][lastOp.op = "qcm_finish" /\ HandlerRan("radio_click") =>
            qcm_user_answers'[qcm_index] = lastOp'.k]_vars
    /\ [][lastOp.op = "qcm_finish" /\ HandlerRan("qcm_next") /\ Held =>
            qcm_index' = NextIndex(qcm_index, Total)]_vars
    /\ [][lastOp.op = "qcm_finish" /\ HandlerRan("qcm_prev") /\ Held =>
            qcm_index' = PrevIndex(qcm_index)]_vars
    /\ []((lastOp.op = "qcm_finish" /\ Held) =>
            (qcm_status.kind = "Termine" /\ qcm_status.score = CorrectCount))

\* C9: with no quiz held qcm_next, qcm_prev and qcm_finish return at once:
\* there is still no quiz, the index is 0, no answer is recorded, nothing else
\* changes and no exception is raised.
C9_NoQuizNoOp ==
    /\ [](~Held => qcm_index = 0 /\ qcm_user_answers = NoAnswers)
    /\ [][(HandlerRan("qcm_next") \/ HandlerRan("qcm_prev") \/ HandlerRan("qcm_finish"))
          /\ ~Held =>
            /\ lastOp'.outcome = "no quiz"
            /\ UNCHANGED <<qcm_data, qcm_index, qcm_user_answers, qcm_choice_var, btn_prev,
                           btn_next, btn_finish, qcm_status, qcm_correction>>]_vars

\* qcm_finish ran with no quiz held
C9_FinishedWithoutQuiz == lastOp.op = "qcm_finish" /\ ~Held

\* a normalization that yields at least one question
YieldsQuiz(data) == data.t = "dict"

\* C10: a generation on a reply of the model installs the quiz of the JSON
\* path when that yields a question, else the quiz of the text path when that
\* yields a question, else shows one error and installs nothing; a quiz held
\* has at least one question.
C10_JsonThenTextThenFailure ==
    /\ Held => Total >= 1
    /\ (lastOp.op = "gui_generate_qcm" /\ lastOp.file = "text" /\ lastOp.reply.kind = "raw") =>
          IF YieldsQuiz(_normalize_qcm(lastOp.reply.decoded))
          THEN lastOp.outcome = "generated" /\ qcm_data = _normalize_qcm(lastOp.reply.decoded)
          ELSE IF YieldsQuiz(_normalize_qcm(lastOp.reply.parsed))
          THEN lastOp.outcome = "generated" /\ qcm_data = _normalize_qcm(lastOp.reply.parsed)
          ELSE lastOp.outcome = "failed" /\ messagebox = <<"showerror Erreur QCM">>

-----------------------------------------------------------------------------
(* _answer_to_index as a function of its arguments *)

\* the variables of the quiz session, which the pure functions leave alone
program == <<qcm_data, qcm_index, qcm_user_answers, qcm_choice_var, btn_prev,
             btn_next, btn_finish, qcm_status, qcm_correction, messagebox>>

MaxText == 3
MaxOptions == 6

\* the characters raw answers are made of
Alphabet == {"A", "b", "F", "G", "0", "1", "2", "5", SuperscriptTwo, " "}

Texts == UNION {[1..k -> Alphabet] : k \in 0..MaxText}

\* q.get("answer") of a normalized question: absent, an integer or a text
RawAnswers ==
    {None, PyBool(TRUE), PyBool(FALSE)}
    \cup {PyInt(k) : k \in -2..(MaxOptions + 1)}
    \cup {PyStr(s) : s \in Texts}

\* q["options"] of a normalized question, by its length
OptionLists == {PyList([i \in 1..n |-> T("o")]) : n \in 0..MaxOptions}

ResolverInit ==
    /\ Init!1 /\ Init!2 /\ Init!3 /\ Init!4 /\ Init!5
    /\ Init!6 /\ Init!7 /\ Init!8 /\ Init!9 /\ Init!10
    /\ Init!12 /\ Init!13
    /\ \E answer \in RawAnswers, options \in OptionLists :
          lastOp = [op |-> "arguments", answer |-> answer, options |-> options]

\* the call _answer_to_index(answer, options)
resolve ==
    /\ lastOp.op = "arguments"
    /\ lastOp' = [op |-> "_answer_to_index", answer |-> lastOp.answer,
                  options |-> lastOp.options,
                  result |-> _answer_to_index(lastOp.answer, lastOp.options)]
    /\ UNCHANGED <<program, notes>>

ResolverNext == resolve

ResolverSpec == ResolverInit /\ [][ResolverNext]_vars

Resolving == lastOp.op = "_answer_to_index"
NumOptions == Len(lastOp.options.v)
Unknown == None
IsIndex(r, n) == IsInstanceInt(r) /\ 0 <= IntOf(r) /\ IntOf(r) < n

\* C11: the resolver never raises; it returns unknown or an index below
\* len(options); an absent answer or one empty after trimming gives unknown.
C11_ResolverTotal ==
    Resolving =>
        /\ ~IsRaise(lastOp.result)
        /\ lastOp.result = Unknown \/ IsIndex(lastOp.result, NumOptions)
        /\ IsNone(lastOp.answer) => lastOp.result = Unknown
        /\ (lastOp.answer.t = "str" /\ \A i \in 1..Len(lastOp.answer.v) : lastOp.answer.v[i] = " ")
               => lastOp.result = Unknown

\* the raw answer is a text, Trimmed its text without the surrounding blanks
TextAnswer == Resolving /\ lastOp.answer.t = "str"
Trimmed == strip(lastOp.answer.v)
AllDecimal(s) == s # <<>> /\ \A i \in 1..Len(s) : s[i] \in Range(AsciiDigits)

\* what the digit reading of value v gives with n options
DigitReading(v, n) ==
    IF 0 <= v /\ v < n THEN PyInt(v)
    ELSE IF 1 <= v /\ v <= n THEN PyInt(v - 1)
    ELSE Unknown

\* C12: a text answer that is all digits, of value v, resolves to v when
\* 0 <= v < n, else to v - 1 when 1 <= v <= n, else to unknown; "1" with two
\* options gives 1 and "5" with two options gives unknown.
C12_DigitsZeroBasedFirst ==
    (TextAnswer /\ AllDecimal(Trimmed)) =>
        /\ lastOp.result = DigitReading(DecimalValue(Trimmed), NumOptions)
        /\ (Trimmed = <<"1">> /\ NumOptions = 2) => lastOp.result = PyInt(1)
        /\ (Trimmed = <<"5">> /\ NumOptions = 2) => lastOp.result = Unknown

\* "2" with two options: out of range as a 0-based index, read as 1-based
C12_OneBasedFallback ==
    /\ TextAnswer /\ lastOp.answer.v = <<" ", "2">> /\ NumOptions = 2
    /\ lastOp.result = PyInt(1)

\* the positions of s holding a letter A-F (either case) with no letter, digit
\* or underscore next to it
StandAloneLetters(s) ==
    {i \in 1..Len(s) :
        /\ s[i] \in {"A", "B", "C", "D", "E", "F", "a", "b", "c", "d", "e", "f"}
        /\ (i > 1 => ~IsWordChar(s[i - 1]))
        /\ (i < Len(s) => ~IsWordChar(s[i + 1]))}

LetterPosition(c) ==
    CASE c \in {"A", "a"} -> 0 [] c \in {"B", "b"} -> 1 [] c \in {"C", "c"} -> 2
      [] c \in {"D", "d"} -> 3 [] c \in {"E", "e"} -> 4 [] c \in {"F", "f"} -> 5

FirstOf(S) == CHOOSE i \in S : \A j \in S : i <= j

\* C13: a text answer holding a stand-alone letter A-F in any case resolves to
\* the position of (the first such) letter when below len(options), else to
\* unknown, whatever digits the text also holds.
C13_LetterPosition ==
    (TextAnswer /\ StandAloneLetters(Trimmed) # {}) =>
        lastOp.result =
            (IF LetterPosition(Trimmed[FirstOf(StandAloneLetters(Trimmed))]) < NumOptions
             THEN PyInt(LetterPosition(Trimmed[FirstOf(StandAloneLetters(Trimmed))]))
             ELSE Unknown)

\* "1 b" with two options: the letter wins over the digit
C13_LetterBeforeDigit ==
    /\ TextAnswer /\ lastOp.answer.v = <<"1", " ", "b">> /\ NumOptions = 2
    /\ lastOp.result = PyInt(1)

\* C14: an integer answer k resolves to k when 0 <= k < len(options) and to
\* unknown otherwise, never to k - 1.
C14_IntegerInRangeOnly ==
    (Resolving /\ lastOp.answer.t = "int") =>
        lastOp.result =
            (IF 0 <= lastOp.answer.v /\ lastOp.answer.v < NumOptions
             THEN PyInt(lastOp.answer.v) ELSE Unknown)

\* k = len(options) = 2 resolves to unknown
C14_IntegerEqualToLength ==
    /\ Resolving /\ lastOp.answer = PyInt(2) /\ NumOptions = 2
    /\ lastOp.result = Unknown

-----------------------------------------------------------------------------
(* _normalize_qcm as a function of its argument *)

MaxEntries == 3

\* the items a question mapping may hold for its text
TextItems ==
    {<<>>,
     <<Item("question", T("p"))>>,
     <<Item("q", PyStr(<<" ", "q", " ">>))>>,
     <<Item("question", PyStr(<<>>)), Item("q", T("r"))>>,
     <<Item("question", PyStr(<<" ">>))>>,
     <<Item("question", PyInt(5))>>,
     <<Item("question", None)>>}

\* ... for its options: a list, a lettered mapping, a string, a number
OptionValues ==
    {PyList(<<T("x"), T("y")>>),
     PyList(<<PyStr(<<" ", "x", " ">>), PyInt(7), PyStr(<<" ">>)>>),
     PyList(<<T("x"), PyStr(<<" ">>)>>),
     PyList(<<>>),
     PyDict(<<Item("A", T("x")), Item("B", T("y"))>>),
     PyDict(<<Item("C", PyStr(<<" ", "z">>)), Item("A", T("x")), Item("e", T("w")),
              Item("B", PyInt(4))>>),
     PyDict(<<Item("F", T("x")), Item("D", PyStr(<<>>))>>),
     PyDict(<<Item("D", T("x")), Item("a", T("y"))>>),
     PyStr(<<"a", "b">>),
     PyInt(5)}

OptionItems ==
    {<<>>}
    \cup {<<Item("options", o)>> : o \in OptionValues}
    \cup {<<Item("choices", o)>> : o \in {PyList(<<T("x"), T("y")>>),
                                           PyDict(<<Item("A", T("x")), Item("B", T("y"))>>)}}
    \cup {<<Item("answers", PyList(<<T("x"), T("y"), T("z")>>))>>}

\* ... for its answer
AnswerItems ==
    {<<>>,
     <<Item("answer", T("B"))>>,
     <<Item("answer", PyInt(0))>>,
     <<Item("answer", PyInt(1)), Item("correct", T("C"))>>,
     <<Item("answer", PyInt(0)), Item("correct", T("C"))>>,
     <<Item("answer", PyStr(<<>>)), Item("correct_answer", PyInt(1))>>,
     <<Item("correct", T("a"))>>,
     <<Item("correct_answer", PyInt(0))>>,
     <<Item("correct_answer", PyInt(2))>>}

\* ... for its explanation
ExplanationItems ==
    {<<>>,
     <<Item("explanation", PyStr(<<" ", "e", " ">>))>>,
     <<Item("exp", T("f"))>>,
     <<Item("explanation", PyInt(5))>>}

QuestionMappings ==
    {PyDict(t \o o \o a \o e) :
        t \in TextItems, o \in OptionItems, a \in AnswerItems, e \in ExplanationItems}

\* the entries of a questions list: two questions that are kept, entries that
\* are skipped, and one with a number for its text
ListEntries ==
    {QuestionPool[1], QuestionPool[2], EmptyTextQuestion, OneOptionQuestion, PyInt(5),
     NumericTextQuestion}

EntryLists == UNION {[1..k -> ListEntries] : k \in 0..MaxEntries}

\* what _extract_json_obj (lines 71-99) may return
DecodedValues ==
    {None, PyInt(5), T("p"), PyDict(<<>>), PyDict(<<Item("questions", PyInt(5))>>)}
    \cup {PyList(<<q>>) : q \in QuestionMappings}
    \cup {PyList(l) : l \in EntryLists}
    \cup {PyDict(<<Item("questions", PyList(l))>>) : l \in EntryLists}
    \cup {PyDict(<<Item("quiz", PyList(l))>>) : l \in EntryLists}

NormalizeInit ==
    /\ Init!1 /\ Init!2 /\ Init!3 /\ Init!4 /\ Init!5
    /\ Init!6 /\ Init!7 /\ Init!8 /\ Init!9 /\ Init!10
    /\ Init!12 /\ Init!13
    /\ \E data \in DecodedValues : lastOp = [op |-> "argument", data |-> data]

\* the call _normalize_qcm(data)
normalize ==
    /\ lastOp.op = "argument"
    /\ lastOp' = [op |-> "_normalize_qcm", data |-> lastOp.data,
                  result |-> _normalize_qcm(lastOp.data)]
    /\ UNCHANGED <<program, notes>>

\* the call _normalize_qcm(data) on the quiz a first call returned
normalize_again ==
    /\ lastOp.op = "_normalize_qcm"
    /\ lastOp.result.t = "dict"
    /\ lastOp' = [op |-> "_normalize_qcm again", data |-> lastOp.result,
                  result |-> _normalize_qcm(lastOp.result)]
    /\ UNCHANGED <<program, notes>>

NormalizeNext == normalize \/ normalize_again

NormalizeSpec == NormalizeInit /\ [][NormalizeNext]_vars

Normalizing == lastOp.op = "_normalize_qcm"
ReturnedQuiz == Normalizing /\ lastOp.result.t = "dict"
ReturnedQuestions == Get(lastOp.result, "questions").v

\* a text with a character other than a blank
NonBlank(x) == x.t = "str" /\ \E i \in 1..Len(x.v) : x.v[i] \notin Whitespace

\* C15: every question of a returned quiz has a non-empty text and, for
\* options, a sequence of at least two strings, each non-empty after trimming.
C15_QuestionsWellFormed ==
    ReturnedQuiz =>
        \A i \in 1..Len(ReturnedQuestions) :
            /\ NonBlank(Get(ReturnedQuestions[i], "question"))
            /\ Get(ReturnedQuestions[i], "options").t = "list"
            /\ Len(Get(ReturnedQuestions[i], "options").v) >= 2
            /\ \A k \in 1..Len(Get(ReturnedQuestions[i], "options").v) :
                  NonBlank(Get(ReturnedQuestions[i], "options").v[k])

\* C16: normalization returns a quiz or no result, and never raises.
C16_NormalizeNeverRaises ==
    Normalizing =>
        /\ ~IsRaise(lastOp.result)
        /\ lastOp.result = None \/ lastOp.result.t = "dict"

\* the questions list of the payload, as the caller wrote it
GivenEntries ==
    IF lastOp.data.t = "list" THEN lastOp.data.v
    ELSE IF lastOp.data.t = "dict" /\ HasKey(lastOp.data, "questions")
                /\ Get(lastOp.data, "questions").t = "list"
    THEN Get(lastOp.data, "questions").v
    ELSE IF lastOp.data.t = "dict" /\ HasKey(lastOp.data, "quiz")
                /\ Get(lastOp.data, "quiz").t = "list"
    THEN Get(lastOp.data, "quiz").v
    ELSE <<>>

\* the payload is one question mapping
OneQuestion == Normalizing /\ Len(GivenEntries) = 1 /\ GivenEntries[1].t = "dict"

\* the raw answer token of a question mapping: the value of the first key it has
GivenAnswer(q) ==
    IF HasKey(q, "answer") THEN Get(q, "answer")
    ELSE IF HasKey(q, "correct") THEN Get(q, "correct")
    ELSE Get(q, "correct_answer")

\* C17: the answer of a returned question is the value of the question's
\* answer key, else of correct, else of correct_answer, unchanged; an integer
\* answer 0 stays 0 and resolves to option index 0.
C17_AnswerCarriedThrough ==
    (OneQuestion /\ ReturnedQuiz) =>
        /\ Get(ReturnedQuestions[1], "answer") = GivenAnswer(GivenEntries[1])
        /\ GivenAnswer(GivenEntries[1]) = PyInt(0) =>
              _answer_to_index(Get(ReturnedQuestions[1], "answer"),
                               Get(ReturnedQuestions[1], "options")) = PyInt(0)

\* the text and the options a question mapping gives, under the first key it has
GivenText(e) == IF HasKey(e, "question") THEN Get(e, "question") ELSE Get(e, "q")

GivenOptions(e) ==
    IF HasKey(e, "options") THEN Get(e, "options")
    ELSE IF HasKey(e, "choices") THEN Get(e, "choices")
    ELSE Get(e, "answers")

\* the letters A to F a mapping has a key for, in the order A to F
PresentLetters(d) ==
    SelectSeq(<<"A", "B", "C", "D", "E", "F">>, LAMBDA L : HasKey(d, L))

\* the number of options a question gives: the entries of a list that are not
\* blank, the letters A-F of a mapping
OptionCount(o) ==
    IF o.t = "list"
    THEN Cardinality({k \in 1..Len(o.v) : ~(o.v[k].t = "str" /\ ~NonBlank(o.v[k]))})
    ELSE IF o.t = "dict" THEN Len(PresentLetters(o))
    ELSE 0

\* the filter: a mapping with a non-empty text and at least two options
PassesFilter(e) ==
    /\ e.t = "dict"
    /\ NonBlank(GivenText(e))
    /\ OptionCount(GivenOptions(e)) >= 2

PassingEntries == SelectSeq(GivenEntries, PassesFilter)

\* C18: for a payload with at least one entry that passes the filter,
\* normalization returns a quiz whose questions are the passing entries, in
\* their order, each once (compared by their trimmed texts).
C18_ExactlyThePassingEntries ==
    (Normalizing /\ PassingEntries # <<>>) =>
        /\ lastOp.result.t = "dict"
        /\ [i \in 1..Len(ReturnedQuestions) |-> Get(ReturnedQuestions[i], "question")]
             = [i \in 1..Len(PassingEntries) |-> PyStr(strip(GivenText(PassingEntries[i]).v))]

\* the options normalization is to give for a lettered mapping
LetteredOptions(d) ==
    [i \in 1..Len(PresentLetters(d)) |->
        PyStr(strip(<<PresentLetters(d)[i], ")", " ">>
                    \o strip(str(Get(d, PresentLetters(d)[i])))))]

\* C19: options given as a lettered mapping become the strings
\* "<LETTER>) <value>" (the value trimmed) of the letters A to F present, in
\* the order A to F whatever the mapping's key order; {"A":"x","B":"y"} gives
\* ["A) x", "B) y"].
C19_LetteredMappingInLetterOrder ==
    (OneQuestion /\ ReturnedQuiz /\ GivenOptions(GivenEntries[1]).t = "dict") =>
        /\ Get(ReturnedQuestions[1], "options")
             = PyList(LetteredOptions(GivenOptions(GivenEntries[1])))
        /\ GivenOptions(GivenEntries[1]) = PyDict(<<Item("A", T("x")), Item("B", T("y"))>>)
             => Get(ReturnedQuestions[1], "options")
                  = PyList(<<PyStr(<<"A", ")", " ", "x">>), PyStr(<<"B", ")", " ", "y">>)>>)

\* a mapping written C, A, e, B gives the options of A, B and C
C19_KeysOutOfOrder ==
    /\ OneQuestion /\ ReturnedQuiz
    /\ GivenOptions(GivenEntries[1]).t = "dict"
    /\ GivenOptions(GivenEntries[1]).v[1].k = "C"
    /\ Get(ReturnedQuestions[1], "options")
         = PyList(<<PyStr(<<"A", ")", " ", "x">>), PyStr(<<"B", ")", " ", "4">>),
                    PyStr(<<"C", ")", " ", "z">>)>>)

-----------------------------------------------------------------------------
(* _parse_qcm_from_text *)

OptionDelims == {")", ".", ":", "-"}

\* a character [A-F] under re.IGNORECASE
IsLetterAF(c) == UpperChar(c) \in Range(OptionLetters)

\* \s* and \d+ from position i: the first position they do not take
RECURSIVE SkipSpaces(_, _)
SkipSpaces(s, i) == IF i <= Len(s) /\ s[i] \in Whitespace THEN SkipSpaces(s, i + 1) ELSE i

RECURSIVE SkipDigits(_, _)
SkipDigits(s, i) == IF i <= Len(s) /\ IsAsciiDigit(s[i]) THEN SkipDigits(s, i + 1) ELSE i

\* \s*[delims] at position i: the position after the match, 0 when none
DelimAfterSpaces(s, i, delims) ==
    IF SkipSpaces(s, i) <= Len(s) /\ s[SkipSpaces(s, i)] \in delims
    THEN SkipSpaces(s, i) + 1 ELSE 0

\* Q\d+\s*[:\-\)] at position i (lines 177 and 183): the position after it
HeaderEnd(s, i, ignorecase) ==
    IF /\ i <= Len(s)
       /\ s[i] = "Q" \/ (ignorecase /\ s[i] = "q")
       /\ SkipDigits(s, i + 1) > i + 1
    THEN DelimAfterSpaces(s, SkipDigits(s, i + 1), {":", "-", ")"})
    ELSE 0

\* line 174: t.replace("\r\n", "\n")
RECURSIVE ReplaceCRLF(_)
ReplaceCRLF(s) ==
    IF \A i \in 1..Len(s) : s[i] # "\r" THEN s
    ELSE IF Len(s) >= 2 /\ s[1] = "\r" /\ s[2] = "\n"
    THEN <<"\n">> \o ReplaceCRLF(SubSeq(s, 3, Len(s)))
    ELSE <<s[1]>> \o ReplaceCRLF(Tail(s))

\* line 177: the newlines of u that a question header follows
SplitPoints(u) == {p \in 1..Len(u) : u[p] = "\n" /\ HeaderEnd(u, p + 1, FALSE) # 0}

\* line 177: re.split at those newlines, the pieces of u from position i on
RECURSIVE SplitAt(_, _, _)
SplitAt(u, i, points) ==
    IF {p \in points : p >= i} = {} THEN <<SubSeq(u, i, Len(u))>>
    ELSE <<SubSeq(u, i, Min({p \in points : p >= i}) - 1)>>
         \o SplitAt(u, Min({p \in points : p >= i}) + 1, points)

\* line 178: [p.strip() for p in parts if p.strip()]
RECURSIVE StripParts(_)
StripParts(parts) ==
    IF parts = <<>> THEN <<>>
    ELSE (IF strip(Head(parts)) # <<>> THEN <<strip(Head(parts))>> ELSE <<>>)
         \o StripParts(Tail(parts))

\* a keyword at position i under re.IGNORECASE
MatchWord(s, i, word) ==
    /\ i + Len(word) - 1 <= Len(s)
    /\ \A k \in 1..Len(word) :
          UpperChar(s[i + k - 1]) = word[k]
          \/ (word[k] = EAcute /\ s[i + k - 1] = eAcute)

AnswerWords ==
    {<<"A", "N", "S", "W", "E", "R">>, <<"R", "E", "P", "O", "N", "S", "E">>,
     <<"R", EAcute, "P", "O", "N", "S", "E">>}
ExplanationWords ==
    {<<"E", "X", "P", "L", "A", "N", "A", "T", "I", "O", "N">>,
     <<"E", "X", "P", "L", "I", "C", "A", "T", "I", "O", "N">>}

\* (?:word|word)\s*[:\-] at position i: the position after it, 0 when none
MarkerEnd(s, i, words) ==
    IF \E w \in words : MatchWord(s, i, w)
    THEN DelimAfterSpaces(s, i + Len(CHOOSE w \in words : MatchWord(s, i, w)),
                          {":", "-"})
    ELSE 0

\* line 192: the position of the letter of the answer marker at i, 0 when none
AnswerLetterAt(s, i) ==
    IF /\ MarkerEnd(s, i, AnswerWords) # 0
       /\ SkipSpaces(s, MarkerEnd(s, i, AnswerWords)) <= Len(s)
       /\ IsLetterAF(s[SkipSpaces(s, MarkerEnd(s, i, AnswerWords))])
       /\ \/ SkipSpaces(s, MarkerEnd(s, i, AnswerWords)) = Len(s)
          \/ ~IsWordChar(s[SkipSpaces(s, MarkerEnd(s, i, AnswerWords)) + 1])
    THEN SkipSpaces(s, MarkerEnd(s, i, AnswerWords))
    ELSE 0

\* lines 192-194: ans_letter
AnswerLetter(rest) ==
    IF \E i \in 1..Len(rest) : AnswerLetterAt(rest, i) # 0
    THEN PyStr(<<UpperChar(rest[AnswerLetterAt(rest,
                    Min({i \in 1..Len(rest) : AnswerLetterAt(rest, i) # 0}))])>>)
    ELSE None

\* lines 196-198: exp
Explanation(rest) ==
    IF \E i \in 1..Len(rest) : MarkerEnd(rest, i, ExplanationWords) # 0
    THEN strip(SubSeq(rest,
                      MarkerEnd(rest, Min({i \in 1..Len(rest) :
                                    MarkerEnd(rest, i, ExplanationWords) # 0}),
                                ExplanationWords),
                      Len(rest)))
    ELSE <<>>

\* lines 201-202: re.split(marker, s)[0], the text before the first marker
BeforeMarker(s, words) ==
    IF \E i \in 1..Len(s) : MarkerEnd(s, i, words) # 0
    THEN SubSeq(s, 1, Min({i \in 1..Len(s) : MarkerEnd(s, i, words) # 0}) - 1)
    ELSE s

Max(S) == CHOOSE x \in S : \A y \in S : x >= y

\* the first newline of s at or after position g, Len(s) + 1 when none
RECURSIVE LineEnd(_, _)
LineEnd(s, g) == IF g <= Len(s) /\ s[g] # "\n" THEN LineEnd(s, g + 1) ELSE g

\* \s*(.+)$ from position j: \s* gives characters back until (.+) has one that
\* is not a newline; the positions group 2 may start at
OptionTextStarts(s, j) == {g \in j..SkipSpaces(s, j) : g <= Len(s) /\ s[g] # "\n"}

\* line 206: ^\s*([A-F])[\)\.\:\-]\s*(.+)$ matches from the line start p
OptionLineAt(s, p) ==
    /\ p = 1 \/ s[p - 1] = "\n"
    /\ SkipSpaces(s, p) + 1 <= Len(s)
    /\ IsLetterAF(s[SkipSpaces(s, p)])
    /\ s[SkipSpaces(s, p) + 1] \in OptionDelims
    /\ OptionTextStarts(s, SkipSpaces(s, p) + 2) # {}

\* the match from the line start p: where it starts, its letter and its text
OptionLine(s, p) ==
    [start |-> p,
     letter |-> s[SkipSpaces(s, p)],
     text |-> SubSeq(s, Max(OptionTextStarts(s, SkipSpaces(s, p) + 2)),
                     LineEnd(s, Max(OptionTextStarts(s, SkipSpaces(s, p) + 2))) - 1)]

\* line 206: re.finditer, the matches from position pos on
RECURSIVE opt_matches(_, _)
opt_matches(s, pos) ==
    IF {p \in pos..Len(s) : OptionLineAt(s, p)} = {} THEN <<>>
    ELSE <<OptionLine(s, Min({p \in pos..Len(s) : OptionLineAt(s, p)}))>>
         \o opt_matches(s, LineEnd(s, Max(OptionTextStarts(s,
                  SkipSpaces(s, Min({p \in pos..Len(s) : OptionLineAt(s, p)})) + 2))))

\* line 209: the lookahead (?=(?:\s+[A-F][\)\.\:\-])|$) at position q
InlineLookahead(s, q) ==
    \/ q > Len(s)
    \/ q = Len(s) /\ s[q] = "\n"
    \/ /\ s[q] \in Whitespace
       /\ SkipSpaces(s, q) + 1 <= Len(s)
       /\ IsLetterAF(s[SkipSpaces(s, q)])
       /\ s[SkipSpaces(s, q) + 1] \in OptionDelims

\* ([^A-F]+?) from position g: the last position of the shortest run, from m
\* on, of characters other than A-F (either case) that the lookahead follows;
\* 0 when none
RECURSIVE InlineTextEnd(_, _)
InlineTextEnd(s, m) ==
    IF m > Len(s) \/ IsLetterAF(s[m]) THEN 0
    ELSE IF InlineLookahead(s, m + 1) THEN m
    ELSE InlineTextEnd(s, m + 1)

\* \s*([^A-F]+?) from position j: the positions group 2 may start at
InlineTextStarts(s, j) == {g \in j..SkipSpaces(s, j) : InlineTextEnd(s, g) # 0}

\* line 209: the inline pattern matches at position p
InlineAt(s, p) ==
    /\ p + 1 <= Len(s)
    /\ IsLetterAF(s[p])
    /\ s[p + 1] \in OptionDelims
    /\ InlineTextStarts(s, p + 2) # {}

InlineOption(s, p) ==
    [letter |-> s[p],
     text |-> SubSeq(s, Max(InlineTextStarts(s, p + 2)),
                     InlineTextEnd(s, Max(InlineTextStarts(s, p + 2))))]

\* line 209: re.findall, the matches from position pos on
RECURSIVE opt_inline(_, _)
opt_inline(s, pos) ==
    IF {p \in pos..Len(s) : InlineAt(s, p)} = {} THEN <<>>
    ELSE <<InlineOption(s, Min({p \in pos..Len(s) : InlineAt(s, p)}))>>
         \o opt_inline(s, InlineTextEnd(s, Max(InlineTextStarts(s,
                  Min({p \in pos..Len(s) : InlineAt(s, p)}) + 2))) + 1)

\* line 211: re.split(r"[A-F][\)\.\:\-]\s*", rest_clean, 1)[0]
BeforeFirstLabel(s) ==
    IF \E p \in 1..(Len(s) - 1) : IsLetterAF(s[p]) /\ s[p + 1] \in OptionDelims
    THEN SubSeq(s, 1, Min({p \in 1..(Len(s) - 1) :
                              IsLetterAF(s[p]) /\ s[p + 1] \in OptionDelims}) - 1)
    ELSE s

\* mutant of FormatOptions: the letter is kept as it was written
FormatOptionsAsWritten(matches) ==
    [i \in 1..Len(matches) |->
        PyStr(<<matches[i].letter, ")", " ">> \o strip(matches[i].text))]

\* lines 212 and 220: f"{k.upper()}) {v.strip()}" of each match
FormatOptions(matches) ==
    [i \in 1..Len(matches) |->
        PyStr(<<UpperChar(matches[i].letter), ")", " ">> \o strip(matches[i].text))]

\* lines 222-230: the question appended
ParsedQuestion(question_text, options, ans_letter, exp) ==
    PyDict(<<Item("question", PyStr(IF question_text = <<>>
                                     THEN <<"(Question)">> ELSE question_text)),
             Item("options", PyList(options)),
             Item("answer", ans_letter),
             Item("explanation", PyStr(exp))>>)

\* mutant of ParseInline: one inline option is enough
ParseInlineFromOne(rest, rest_clean, inline) ==
    IF Len(inline) >= 1
    THEN ParsedQuestion(strip(BeforeFirstLabel(rest_clean)), FormatOptions(inline),
                        AnswerLetter(rest), Explanation(rest))
    ELSE Skip

\* lines 209-214: the inline fallback, inline being opt_inline
ParseInline(rest, rest_clean, inline) ==
    IF Len(inline) >= 2
    THEN ParsedQuestion(strip(BeforeFirstLabel(rest_clean)), FormatOptions(inline),
                        AnswerLetter(rest), Explanation(rest))
    ELSE Skip

\* lines 206-230, lines being opt_matches
ParseOptions(rest, rest_clean, lines) ==
    IF Len(lines) < 2 THEN ParseInline(rest, rest_clean, opt_inline(rest_clean, 1))
    ELSE ParsedQuestion(strip(SubSeq(rest_clean, 1, lines[1].start - 1)),
                        FormatOptions(lines), AnswerLetter(rest), Explanation(rest))

\* lines 186-230, rest being m.group(2).strip()
ParseRest(rest) ==
    ParseOptions(rest, BeforeMarker(BeforeMarker(rest, AnswerWords), ExplanationWords),
                 opt_matches(BeforeMarker(BeforeMarker(rest, AnswerWords),
                                          ExplanationWords), 1))

\* lines 181-230: one block gives a question, or Skip (continue)
ParseBlock(block) ==
    IF HeaderEnd(block, 1, TRUE) = 0 THEN Skip
    ELSE ParseRest(strip(SubSeq(block, HeaderEnd(block, 1, TRUE), Len(block))))

\* lines 180-230: the loop over the blocks
RECURSIVE ParseBlocks(_)
ParseBlocks(parts) ==
    IF parts = <<>> THEN <<>>
    ELSE (IF ParseBlock(Head(parts)) = Skip THEN <<>> ELSE <<ParseBlock(Head(parts))>>)
         \o ParseBlocks(Tail(parts))

\* lines 232-235
ParsedResult(questions) ==
    IF questions = <<>> THEN None ELSE PyDict(<<Item("questions", PyList(questions))>>)

\* lines 171-235, t being raw.strip() with its line ends standardized
ParseText(t) ==
    ParsedResult(ParseBlocks(StripParts(SplitAt(<<"\n">> \o t, 1,
                                               SplitPoints(<<"\n">> \o t)))))

_parse_qcm_from_text(raw) ==
    IF raw = <<>> THEN None ELSE ParseText(ReplaceCRLF(strip(raw)))

-----------------------------------------------------------------------------
(* _parse_qcm_from_text as a function of its argument *)

MaxInline == 3
MaxBlocks == 2

\* question texts and option texts made of ordinary words
QuestionTexts == {<<"W", "h", "y">>, <<"W", "h", "a", "t", " ", "n", "o", "w">>}
OptionTexts ==
    {<<"f", "o", "o">>, <<"b", "a", "r">>, <<"b", "a", "z">>, <<"x", "y", "z">>,
     <<"s", "k", "y">>, <<"o", "n">>}

\* one block as it is written: its question text, the letter and the text of
\* each option, the letter of its ANSWER line ("" when the block has neither
\* an ANSWER nor an EXPLANATION line) and the text of its EXPLANATION line
Block(question, letters, texts, answer, explanation) ==
    [question |-> question, letters |-> letters, texts |-> texts, answer |-> answer,
     explanation |-> explanation]

\* " A) <text> B) <text> ..." on one line
RECURSIVE InlineOptionsText(_, _)
InlineOptionsText(texts, i) ==
    IF i > Len(texts) THEN <<>>
    ELSE <<" ", OptionLetters[i], ")", " ">> \o texts[i] \o InlineOptionsText(texts, i + 1)

\* "Q1: <question> A) <text> B) <text> ..."
InlineBlock(question, texts) ==
    <<"Q", "1", ":", " ">> \o question \o InlineOptionsText(texts, 1)

\* the choices a block is written from, and the n-th combination of them
BlockQuestions == <<<<>>, <<"W", "h", "y">>, <<"W", "h", "a", "t", " ", "n", "o", "w">>>>
BlockLetters == <<<<"C">>, <<"A", "B">>, <<"b", "A", "D">>, <<"A", "B", "C", "D">>>>
BlockTexts ==
    <<<<<<"f", "o", "o">>, <<"b", "a", "r">>, <<"b", "a", "z">>, <<"s", "k", "y">>>>,
      <<<<"o", "n">>, <<"x", " ", "y">>, <<"4">>, <<"E", ".", " ", "c">>>>>>
BlockAnswers == <<"", "A", "b">>
BlockExplanations == <<<<>>, <<"s", "o">>, <<"i", "t", " ", "i", "s", " ">>>>

BlockOf(n) ==
    Block(BlockQuestions[(n % 3) + 1],
          BlockLetters[((n \div 3) % 4) + 1],
          SubSeq(BlockTexts[((n \div 12) % 2) + 1], 1, Len(BlockLetters[((n \div 3) % 4) + 1])),
          BlockAnswers[((n \div 24) % 3) + 1],
          BlockExplanations[((n \div 24) % 3) + 1])

\* the option lines of a block, each on a line of its own after the indent
RECURSIVE OptionLinesText(_, _, _)
OptionLinesText(b, i, indent) ==
    IF i > Len(b.letters) THEN <<>>
    ELSE <<"\n">> \o indent \o <<b.letters[i], ")", " ">> \o b.texts[i]
         \o OptionLinesText(b, i + 1, indent)

\* the ANSWER line and the EXPLANATION line of a block
MarkerLinesText(b, indent) ==
    IF b.answer = "" THEN <<>>
    ELSE <<"\n">> \o indent \o <<"A", "N", "S", "W", "E", "R", ":", " ", b.answer>>
         \o <<"\n">> \o indent
         \o <<"E", "X", "P", "L", "A", "N", "A", "T", "I", "O", "N", ":", " ">>
         \o b.explanation

\* "<prefix>Q<i>: <question>", the option lines, the marker lines; then the
\* blocks that follow
RECURSIVE BlocksText(_, _, _, _)
BlocksText(blocks, i, prefix, indent) ==
    IF i > Len(blocks) THEN <<>>
    ELSE (IF i = 1 THEN <<>> ELSE <<"\n">>)
         \o prefix \o <<"Q", <<"1", "2", "3", "4">>[i], ":", " ">> \o blocks[i].question
         \o OptionLinesText(blocks[i], 1, indent) \o MarkerLinesText(blocks[i], indent)
         \o BlocksText(blocks, i + 1, prefix, indent)

\* the blocks of a text: k combinations, taken at a stride from the n-th
BlockStrides == {1, 4, 11}
BlockLists ==
    {[i \in 1..k |-> BlockOf(n + (i - 1) * stride)] :
        k \in 1..MaxBlocks, stride \in BlockStrides,
        n \in 0..(Len(BlockQuestions) * Len(BlockLetters) * Len(BlockTexts)
                    * Len(BlockAnswers) - 1)}

\* the raw texts parsed, with what they were written from: the options on the
\* line of the question; a line for each option; the layout that QCM_PROMPT
\* asks for (prompts.py lines 8-14), "- Q1: ..." with the lines below indented
ParserArguments ==
    {[op |-> "argument", layout |-> "inline",
      blocks |-> <<Block(q, SubSeq(OptionLetters, 1, Len(ts)), ts, "", <<>>)>>,
      raw |-> InlineBlock(q, ts)] :
        q \in QuestionTexts, ts \in UNION {[1..k -> OptionTexts] : k \in 2..MaxInline}}
    \cup {[op |-> "argument", layout |-> "lines", blocks |-> bs,
           raw |-> BlocksText(bs, 1, <<>>, <<>>)] : bs \in BlockLists}
    \cup {[op |-> "argument", layout |-> "prompt", blocks |-> bs,
           raw |-> BlocksText(bs, 1, <<"-", " ">>, <<" ", " ">>)] : bs \in BlockLists}

ParserInit ==
    /\ Init!1 /\ Init!2 /\ Init!3 /\ Init!4 /\ Init!5
    /\ Init!6 /\ Init!7 /\ Init!8 /\ Init!9 /\ Init!10
    /\ Init!12 /\ Init!13
    /\ lastOp \in ParserArguments

\* the call _parse_qcm_from_text(raw)
parse ==
    /\ lastOp.op = "argument"
    /\ lastOp' = [op |-> "_parse_qcm_from_text", layout |-> lastOp.layout,
                  blocks |-> lastOp.blocks, raw |-> lastOp.raw,
                  result |-> _parse_qcm_from_text(lastOp.raw)]
    /\ UNCHANGED <<program, notes>>

\* lines 847-851 of gui_generate_qcm: the text path of a generation, its
\* outcome the quiz to install or the exception raised; the raw texts hold no
\* brace and no bracket, so that line 844 left data None
text_fallback ==
    /\ lastOp.op = "_parse_qcm_from_text"
    /\ lastOp' = [op |-> "text fallback", layout |-> lastOp.layout,
                  blocks |-> lastOp.blocks, raw |-> lastOp.raw, parsed |-> lastOp.result,
                  data |-> FromText(_normalize_qcm(lastOp.result))]
    /\ UNCHANGED <<program, notes>>

ParserNext == parse \/ text_fallback

ParserSpec == ParserInit /\ [][ParserNext]_vars

Parsing == lastOp.op = "_parse_qcm_from_text"

\* the strings "<LETTER>) <text>" of the texts, lettered from A on
Lettered(texts) ==
    [i \in 1..Len(texts) |->
        PyStr(<<<<"A", "B", "C", "D", "E", "F">>[i], ")", " ">> \o texts[i])]

\* C20: a block whose options all sit on the line of the question gives one
\* question, its text the text before the first option and its options one
\* string "<LETTER>) <text>" per letter.
C20_InlineOptionsRecovered ==
    (Parsing /\ lastOp.layout = "inline") =>
        /\ lastOp.result.t = "dict"
        /\ Len(Get(lastOp.result, "questions").v) = 1
        /\ Get(Get(lastOp.result, "questions").v[1], "question")
             = PyStr(lastOp.blocks[1].question)
        /\ Get(Get(lastOp.result, "questions").v[1], "options")
             = PyList(Lettered(lastOp.blocks[1].texts))

\* the question a block is written to give
ExpectedQuestion(b) ==
    PyDict(<<Item("question", PyStr(b.question)),
             Item("options", PyList([j \in 1..Len(b.letters) |->
                     PyStr(<<UpperChar(b.letters[j]), ")", " ">> \o b.texts[j])])),
             Item("answer", PyStr(<<UpperChar(b.answer)>>)),
             Item("explanation", PyStr(strip(b.explanation)))>>)

\* a block with a question text, two option lines or more, an ANSWER line and
\* an EXPLANATION line
FullBlock(b) == b.question # <<>> /\ Len(b.letters) >= 2 /\ b.answer # ""

\* C21: a text of blocks "Qn: <question>", option lines "<letter>) <text>",
\* "ANSWER: <letter>" and "EXPLANATION: <text>" gives one question per block,
\* in block order, with the question text, the options "<LETTER>) <text>" in
\* line order, the answer letter in upper case and the trimmed explanation.
C21_BlocksParsedInOrder ==
    (Parsing /\ lastOp.layout = "lines"
        /\ \A i \in 1..Len(lastOp.blocks) : FullBlock(lastOp.blocks[i])) =>
        /\ lastOp.result.t = "dict"
        /\ Get(lastOp.result, "questions")
             = PyList([i \in 1..Len(lastOp.blocks) |-> ExpectedQuestion(lastOp.blocks[i])])

\* two blocks parsed, one with its option lines out of order and in lower case
C21_TwoBlocksOutOfOrder ==
    /\ Parsing /\ lastOp.layout = "lines"
    /\ Len(lastOp.blocks) = 2
    /\ \A i \in 1..2 : FullBlock(lastOp.blocks[i])
    /\ lastOp.blocks[2].letters = <<"b", "A", "D">>
    /\ lastOp.blocks[1].answer = "b"
    /\ Len(Get(lastOp.result, "questions").v) = 2

\* the questions of a parsed result, none when there is no result
QuestionsOf(result) == IF result.t = "dict" THEN Get(result, "questions").v ELSE <<>>

\* C22: every question the parser emits has two options or more and a
\* non-empty text; of blocks written with option lines, those with a single
\* option line give no question and the others one each; and normalizing the
\* parser's result keeps every question.
C22_OnlyBlocksWithTwoOptions ==
    /\ Parsing =>
          /\ \A i \in 1..Len(QuestionsOf(lastOp.result)) :
                /\ Len(Get(QuestionsOf(lastOp.result)[i], "options").v) >= 2
                /\ Get(QuestionsOf(lastOp.result)[i], "question").v # <<>>
          /\ lastOp.layout = "lines" =>
                Len(QuestionsOf(lastOp.result))
                  = Cardinality({i \in 1..Len(lastOp.blocks) :
                                    Len(lastOp.blocks[i].letters) >= 2})
    /\ (lastOp.op = "text fallback" /\ lastOp.parsed.t = "dict") =>
          /\ lastOp.data.t = "dict"
          /\ Len(QuestionsOf(lastOp.data)) = Len(QuestionsOf(lastOp.parsed))

\* of two blocks the one with a single option line gave nothing, the other a
\* question under the placeholder text, and normalization kept it
C22_SingleOptionBlockDropped ==
    /\ lastOp.op = "text fallback" /\ lastOp.layout = "lines"
    /\ Len(lastOp.blocks) = 2
    /\ Len(lastOp.blocks[1].letters) = 1
    /\ Len(QuestionsOf(lastOp.data)) = 1
    /\ Get(QuestionsOf(lastOp.data)[1], "question") = PyStr(<<"(Question)">>)

\* C29: a reply laid out as QCM_PROMPT asks, "- Q1: ..." with four option
\* lines, an ANSWER line and an EXPLANATION line indented below it, goes
\* through the text path of a generation to a quiz of one question per block.
C29_PromptLayoutParsed ==
    (lastOp.op = "text fallback" /\ lastOp.layout = "prompt"
        /\ \A i \in 1..Len(lastOp.blocks) :
              /\ FullBlock(lastOp.blocks[i])
              /\ lastOp.blocks[i].letters = <<"A", "B", "C", "D">>) =>
        /\ lastOp.data.t = "dict"
        /\ Len(QuestionsOf(lastOp.data)) = Len(lastOp.blocks)

-----------------------------------------------------------------------------
(* Properties of the quiz session, continued *)

\* the number of options of question idx of the quiz held
NumOptionsAt(idx) == Len(Get(QuestionAt(qcm_data, idx), "options").v)

\* C24: every key of qcm_user_answers is a question index of the quiz held and
\* its value an option index of that question; with no quiz held the map is
\* empty.
C24_AnswersWithinQuiz ==
    \A idx \in DOMAIN qcm_user_answers :
        /\ Held
        /\ idx \in 0..(Total - 1)
        /\ qcm_user_answers[idx] \in 0..(NumOptionsAt(idx) - 1)

\* a quiz of one question has replaced a quiz whose two questions were answered
C24_SmallerQuizInstalled ==
    /\ lastOp.op = "gui_generate_qcm" /\ lastOp.outcome = "generated"
    /\ lastOp.before.answered = 2
    /\ Total = 1

\* C25: with a quiz held Finish is enabled, Previous is enabled exactly when
\* qcm_index > 0 and Next exactly when qcm_index is below the last index; with
\* no quiz held the three buttons are disabled.
C25_ControlsFollowSession ==
    IF Held
    THEN /\ btn_finish = "normal"
         /\ btn_prev = "normal" <=> qcm_index > 0
         /\ btn_next = "normal" <=> qcm_index < Total - 1
    ELSE /\ btn_finish = "disabled"
         /\ btn_prev = "disabled"
         /\ btn_next = "disabled"

\* the radio-button variable shows the recorded answer of the current question
Displayed == qcm_choice_var = AnswerGet(qcm_user_answers, qcm_index, -1)

\* C27: in every state the radio-button variable equals the recorded answer of
\* the current question, -1 when it has none; and qcm_prev, qcm_next and
\* qcm_finish leave qcm_user_answers as it was.
C27_DisplayedIsRecorded ==
    /\ []Displayed
    /\ [][(HandlerRan("qcm_prev") \/ HandlerRan("qcm_next") \/ HandlerRan("qcm_finish"))
            => qcm_user_answers' = qcm_user_answers]_vars

\* qcm_prev came back to a question that has a recorded answer
C27_BackToAnswered ==
    /\ lastOp.op = "qcm_prev" /\ lastOp.outcome = "rendered"
    /\ lastOp.from # qcm_index
    /\ qcm_index \in DOMAIN qcm_user_answers
    /\ qcm_choice_var >= 0

\* C28: normalizing a quiz that normalization returned gives the same quiz.
C28_NormalizeIdempotent ==
    lastOp.op = "_normalize_qcm again" =>
        /\ lastOp.result.t = "dict"
        /\ lastOp.result = lastOp.data

-----------------------------------------------------------------------------
(* The correct index of a question whose options are lettered *)

MaxLabels == 3

\* the letters of the options of one question, in the order a mapping's keys or
\* a text's option lines give them: distinct, some absent, in any order
LabelOrders ==
    {ls \in UNION {[1..k -> {"A", "B", "C", "D"}] : k \in 2..MaxLabels} :
        \A i, j \in 1..Len(ls) : i # j => ls[i] # ls[j]}

LabelTexts == <<"x", "y", "z", "w">>

\* a decoded reply of one question, its options a lettered mapping
LabelledMapping(ls, answer) ==
    PyList(<<PyDict(<<Item("question", T("t")),
                      Item("options", PyDict([i \in 1..Len(ls) |->
                                                 Item(ls[i], T(LabelTexts[i]))])),
                      Item("answer", T(answer))>>)>>)

\* a raw reply of one block, its options lettered lines
RECURSIVE LabelledLines(_, _)
LabelledLines(ls, i) ==
    IF i > Len(ls) THEN <<>>
    ELSE <<"\n", ls[i], ")", " ", LabelTexts[i]>> \o LabelledLines(ls, i + 1)

LabelledText(ls, answer) ==
    <<"Q", "1", ":", " ", "t">> \o LabelledLines(ls, 1)
        \o <<"\n", "A", "N", "S", "W", "E", "R", ":", " ", answer>>

LabelInit ==
    /\ Init!1 /\ Init!2 /\ Init!3 /\ Init!4 /\ Init!5
    /\ Init!6 /\ Init!7 /\ Init!8 /\ Init!9 /\ Init!10
    /\ Init!12 /\ Init!13
    /\ \E ls \in LabelOrders : \E k \in 1..Len(ls) :
          \/ lastOp = [op |-> "reply", source |-> "mapping", labels |-> ls,
                       answer |-> ls[k], quiz |-> _normalize_qcm(LabelledMapping(ls, ls[k]))]
          \/ lastOp = [op |-> "reply", source |-> "lines", labels |-> ls, answer |-> ls[k],
                       quiz |-> _normalize_qcm(_parse_qcm_from_text(LabelledText(ls, ls[k])))]

\* lines 939-940 of qcm_finish, for the first question of the quiz
correct_idx ==
    /\ lastOp.op = "reply"
    /\ lastOp' = [op |-> "correct_idx", source |-> lastOp.source, labels |-> lastOp.labels,
                  answer |-> lastOp.answer,
                  options |-> Get(QuestionAt(lastOp.quiz, 0), "options"),
                  result |-> _answer_to_index(Get(QuestionAt(lastOp.quiz, 0), "answer"),
                                              Get(QuestionAt(lastOp.quiz, 0), "options"))]
    /\ UNCHANGED <<program, notes>>

LabelNext == correct_idx

LabelSpec == LabelInit /\ [][LabelNext]_vars

\* C26: the options being labelled with letters and the answer being the
\* letter of one of them, the resolved index is the position of the option
\* that carries this letter.
C26_LetterGivesLabelledOption ==
    lastOp.op = "correct_idx" =>
        \E k \in 1..Len(lastOp.options.v) :
            /\ lastOp.options.v[k].v[1] = lastOp.answer
            /\ lastOp.result.t = "int"
            /\ lastOp.result.v = k - 1

(***************************************************************************)
(* The JSON of a CV reply: _extract_json and the decoding step of          *)
(* generate_cv_structured (ollama_client.py).  A reply is a sequence of    *)
(* characters in which the name of a key is one element.                   *)
(***************************************************************************)

\* the character U+0060 is written as one element
Backtick == "(backtick)"

Fence == <<Backtick, Backtick, Backtick>>
JsonFence == Fence \o <<"J", "S", "O", "N">>

\* \{.*?\}\s*``` from the brace at b: the first "}" that blanks and a fence
\* follow, 0 when there is none
FencedEnd(text, b) ==
    IF \E e \in (b + 1)..Len(text) :
          text[e] = "}" /\ MatchWord(text, SkipSpaces(text, e + 1), Fence)
    THEN Min({e \in (b + 1)..Len(text) :
                 text[e] = "}" /\ MatchWord(text, SkipSpaces(text, e + 1), Fence)})
    ELSE 0

\* the pattern of lines 50 and 55 matches at p: the opener, blanks, "{" and an end
FencedAt(text, p, opener) ==
    /\ MatchWord(text, p, opener)
    /\ SkipSpaces(text, p + Len(opener)) <= Len(text)
    /\ text[SkipSpaces(text, p + Len(opener))] = "{"
    /\ FencedEnd(text, SkipSpaces(text, p + Len(opener))) # 0

\* group 1 of the match whose brace is at b
FencedGroup(text, b) == SubSeq(text, b, FencedEnd(text, b))

\* re.search of lines 50 and 55: group 1 of the leftmost match, <<>> when none
FencedBlock(text, opener) ==
    IF \E p \in 1..Len(text) : FencedAt(text, p, opener)
    THEN FencedGroup(text, SkipSpaces(text, Min({p \in 1..Len(text) :
                                                    FencedAt(text, p, opener)})
                                            + Len(opener)))
    ELSE <<>>

\* the first position from pos on that holds c, 0 when none
FirstAt(text, pos, c) ==
    IF \E i \in pos..Len(text) : text[i] = c
    THEN Min({i \in pos..Len(text) : text[i] = c})
    ELSE 0

\* re.findall(r"\{.*?\}", text, re.DOTALL), line 60: from each "{" to the
\* first "}" after it, the search resuming after that "}"
RECURSIVE Blocks(_, _)
Blocks(text, pos) ==
    IF \/ FirstAt(text, pos, "{") = 0
       \/ FirstAt(text, FirstAt(text, pos, "{") + 1, "}") = 0
    THEN <<>>
    ELSE <<SubSeq(text, FirstAt(text, pos, "{"),
                  FirstAt(text, FirstAt(text, pos, "{") + 1, "}"))>>
         \o Blocks(text, FirstAt(text, FirstAt(text, pos, "{") + 1, "}") + 1)

\* lines 64-65, blocks.sort(key=len, reverse=True); blocks[0]: the sort is stable, so the
\* first of the longest blocks
Longest(blocks) ==
    blocks[Min({i \in 1..Len(blocks) :
                   \A j \in 1..Len(blocks) : Len(blocks[j]) <= Len(blocks[i])})]

_extract_json(text) ==
    IF FencedBlock(text, JsonFence) # <<>> THEN PyStr(strip(FencedBlock(text, JsonFence)))
    ELSE IF FencedBlock(text, Fence) # <<>> THEN PyStr(strip(FencedBlock(text, Fence)))
    ELSE IF Blocks(text, 1) = <<>> THEN Raise("ValueError")
    ELSE PyStr(strip(Longest(Blocks(text, 1))))

\* json.dumps: the text of a value, sep after every opening bracket and
\* comma and before every closing bracket
RECURSIVE dumps(_, _), DumpItems(_, _, _), DumpElements(_, _, _)
dumps(v, sep) ==
    CASE v.t = "str" -> <<"\"">> \o v.v \o <<"\"">>
      [] v.t = "list" -> <<"[">> \o sep \o DumpElements(v.v, 1, sep) \o sep \o <<"]">>
      [] v.t = "dict" -> <<"{">> \o sep \o DumpItems(v.v, 1, sep) \o sep \o <<"}">>

DumpItems(items, i, sep) ==
    IF i > Len(items) THEN <<>>
    ELSE (IF i > 1 THEN <<",">> \o sep ELSE <<>>)
         \o <<"\"", items[i].k, "\"", ":">> \o dumps(items[i].val, sep)
         \o DumpItems(items, i + 1, sep)

DumpElements(xs, i, sep) ==
    IF i > Len(xs) THEN <<>>
    ELSE (IF i > 1 THEN <<",">> \o sep ELSE <<>>)
         \o dumps(xs[i], sep) \o DumpElements(xs, i + 1, sep)

\* the objects a CV reply is written from: without a nested object, and
\* with a nested header and nested experience entries
Headers ==
    {PyDict(<<>>), PyDict(<<Item("full_name", T("n"))>>),
     PyDict(<<Item("full_name", T("n")), Item("title", T("t"))>>)}
Entries == {PyDict(<<Item("title", T("e"))>>)}
Profiles == {T("p"), PyStr(<<"p", " ", "q">>)}
FlatObjects ==
    {PyDict(<<Item("profile", p)>>) : p \in Profiles}
    \cup {PyDict(<<Item("profile", p), Item("skills", PyList(<<T("s"), T("k")>>))>>) :
             p \in Profiles}
NestedObjects ==
    {PyDict(<<Item("header", h), Item("profile", p)>>) : h \in Headers, p \in Profiles}
    \cup {PyDict(<<Item("header", h), Item("profile", p),
                   Item("experience", PyList(<<e>>))>>) :
             h \in Headers, p \in Profiles, e \in Entries}
CvObjects == FlatObjects \cup NestedObjects

Separators == {<<>>, <<"\n", " ">>}

\* json.loads, line 166: the value one of whose texts this is; ValueError
\* when it is the text of no value
JsonValues == CvObjects \cup Headers \cup Entries
json_loads(text) ==
    IF \E v \in JsonValues : \E sep \in Separators : dumps(v, sep) = text
    THEN CHOOSE v \in JsonValues : \E sep \in Separators : dumps(v, sep) = text
    ELSE Raise("ValueError")

Prose == <<"V", "o", "i", "c", "i", ":", " ">>

\* the replies of ask_ollama (line 157): the object alone, inside a fence, between sentences, and a
\* reply that holds no object
CvReplies ==
    {[op |-> "reply", layout |-> l, written |-> v,
      raw |-> CASE l = "bare" -> dumps(v, sep)
                [] l = "json fence" -> Fence \o <<"j", "s", "o", "n", "\n">>
                                       \o dumps(v, sep) \o <<"\n">> \o Fence
                [] l = "JSON fence" -> Prose \o JsonFence \o dumps(v, sep) \o Fence
                [] l = "fence" -> Fence \o <<"\n">> \o dumps(v, sep) \o <<"\n">> \o Fence
                [] l = "open fence" -> Fence \o <<"\n">> \o dumps(v, sep)
                [] l = "prose" -> Prose \o dumps(v, sep) \o <<"\n">> \o Prose
                [] l = "none" -> Prose \o sep] :
        l \in {"bare", "json fence", "JSON fence", "fence", "open fence", "prose", "none"},
        v \in CvObjects, sep \in Separators}

ExtractInit ==
    /\ Init!1 /\ Init!2 /\ Init!3 /\ Init!4 /\ Init!5
    /\ Init!6 /\ Init!7 /\ Init!8 /\ Init!9 /\ Init!10
    /\ Init!12 /\ Init!13
    /\ lastOp \in CvReplies

\* line 163 of generate_cv_structured
extract ==
    /\ lastOp.op = "reply"
    /\ lastOp' = [op |-> "_extract_json", layout |-> lastOp.layout,
                  written |-> lastOp.written, raw |-> lastOp.raw,
                  json_text |-> _extract_json(lastOp.raw)]
    /\ UNCHANGED <<program, notes>>

\* lines 165-170 of generate_cv_structured; the ValueError of line 163 ends
\* the call before them
decode ==
    /\ lastOp.op = "_extract_json"
    /\ lastOp' = [op |-> "json.loads", layout |-> lastOp.layout,
                  written |-> lastOp.written, raw |-> lastOp.raw,
                  json_text |-> lastOp.json_text,
                  parsed |-> IF IsRaise(lastOp.json_text) THEN lastOp.json_text
                             ELSE json_loads(lastOp.json_text.v)]
    /\ UNCHANGED <<program, notes>>

ExtractNext == extract \/ decode

ExtractSpec == ExtractInit /\ [][ExtractNext]_vars

HasNested(v) == \E i \in 1..Len(v.v) : v.v[i].k \in {"header", "experience"}

\* C23: a reply without a fence that is one JSON object holding nested
\* objects is extracted whole, and decoding the extracted text gives the
\* object the reply was written from, its header and its profile included.
C23_NestedObjectExtractedWhole ==
    (lastOp.layout = "bare" /\ HasNested(lastOp.written)) =>
        /\ lastOp.op = "_extract_json" => lastOp.json_text = PyStr(lastOp.raw)
        /\ lastOp.op = "json.loads" => lastOp.parsed = lastOp.written

(***************************************************************************)
(* The notes of storage.py.  A title and a content are sequences of        *)
(* characters; the created_at field of an index entry is left out.         *)
(***************************************************************************)

MaxNotes == 3

\* c.isalnum() for the characters of the model
isalnum(c) ==
    c \in Range(UpperLetters) \cup Range(LowerLetters) \cup Range(AsciiDigits)
          \cup {EAcute, eAcute}

\* lines 142-147: the characters kept, stripped, " " replaced by "_", "note"
\* when nothing is left
safe_title(title) ==
    IF strip(SelectSeq(title, LAMBDA c : isalnum(c) \/ c \in {" ", "_", "-"})) = <<>>
    THEN <<"n", "o", "t", "e">>
    ELSE [i \in 1..Len(strip(SelectSeq(title, LAMBDA c : isalnum(c) \/ c \in {" ", "_", "-"})))
             |-> IF strip(SelectSeq(title, LAMBDA c :
                                       isalnum(c) \/ c \in {" ", "_", "-"}))[i] = " "
                 THEN "_"
                 ELSE strip(SelectSeq(title, LAMBDA c :
                                         isalnum(c) \/ c \in {" ", "_", "-"}))[i]]

\* line 149
filename(title) == safe_title(title) \o <<".", "t", "x", "t">>

\* open(path, "w").write(content): the files after name is written
WriteFile(files, name, content) ==
    [f \in DOMAIN files \cup {name} |-> IF f = name THEN content ELSE files[f]]

\* os.remove(path) when the file exists: the files without name
RemoveFile(files, name) == [f \in DOMAIN files \ {name} |-> files[f]]

\* lines 167-177: the file of the first entry that has this title
find_note_path_by_title(index, title) ==
    IF \E i \in 1..Len(index) : index[i].title = title
    THEN PyStr(index[Min({i \in 1..Len(index) : index[i].title = title})].file)
    ELSE None

\* lines 180-189
read_note(files, index, title) ==
    IF \/ IsNone(find_note_path_by_title(index, title))
       \/ find_note_path_by_title(index, title).v \notin DOMAIN files
    THEN Raise("FileNotFoundError")
    ELSE PyStr(files[find_note_path_by_title(index, title).v])

NoteTitles == {<<"a">>, <<"a", " ", "b">>, <<"a", "_", "b">>, <<"a", "!">>, <<>>}
NoteContents == {<<"x">>, <<"y">>}

\* init_storage, lines 18-23; lastOp.written is the content last written
\* under each title that has a note
StorageInit ==
    /\ Init!1 /\ Init!2 /\ Init!3 /\ Init!4 /\ Init!5
    /\ Init!6 /\ Init!7 /\ Init!8 /\ Init!9 /\ Init!10
    /\ Init!12 /\ Init!13
    /\ lastOp = [op |-> "init_storage", title |-> <<>>, outcome |-> "returned",
                 written |-> <<>>]

\* lines 140-161
create_note ==
    /\ Len(index_notes) < MaxNotes
    /\ \E title \in NoteTitles, content \in NoteContents :
          /\ notes_files' = WriteFile(notes_files, filename(title), content)
          /\ index_notes' = Append(index_notes, [title |-> title, file |-> filename(title)])
          /\ lastOp' = [op |-> "create_note", title |-> title, outcome |-> "returned",
                        written |-> WriteFile(lastOp.written, title, content)]
    /\ UNCHANGED program

\* the call of read_note
read ==
    /\ \E title \in NoteTitles :
          lastOp' = [op |-> "read_note", title |-> title,
                     outcome |-> IF IsRaise(read_note(notes_files, index_notes, title))
                                 THEN "raised" ELSE "returned",
                     written |-> lastOp.written]
    /\ UNCHANGED <<program, notes>>

\* lines 192-201
edit_note ==
    /\ \E title \in NoteTitles, new_content \in NoteContents :
          IF IsRaise(read_note(notes_files, index_notes, title))
          THEN /\ lastOp' = [op |-> "edit_note", title |-> title, outcome |-> "raised",
                             written |-> lastOp.written]
               /\ UNCHANGED notes
          ELSE /\ notes_files' = WriteFile(notes_files,
                                           find_note_path_by_title(index_notes, title).v,
                                           new_content)
               /\ lastOp' = [op |-> "edit_note", title |-> title, outcome |-> "returned",
                             written |-> WriteFile(lastOp.written, title, new_content)]
               /\ UNCHANGED index_notes
    /\ UNCHANGED program

\* lines 204-228
delete_note ==
    /\ \E title \in NoteTitles :
          IF IsNone(find_note_path_by_title(index_notes, title))
          THEN /\ lastOp' = [op |-> "delete_note", title |-> title, outcome |-> "raised",
                             written |-> lastOp.written]
               /\ UNCHANGED notes
          ELSE /\ notes_files' = RemoveFile(notes_files,
                                            find_note_path_by_title(index_notes, title).v)
               /\ index_notes' = SelectSeq(index_notes, LAMBDA n : n.title # title)
               /\ lastOp' = [op |-> "delete_note", title |-> title, outcome |-> "returned",
                             written |-> RemoveFile(lastOp.written, title)]
    /\ UNCHANGED program

StorageNext == create_note \/ read \/ edit_note \/ delete_note

StorageSpec == StorageInit /\ [][StorageNext]_vars

\* list_notes, lines 164-166: the title has an entry
Listed(title) == \E i \in 1..Len(index_notes) : index_notes[i].title = title

\* C30: every note listed in the index reads back the content last written
\* under its own title, and a call for one title leaves what each listed
\* note of another title reads back as it was.
C30_NotesKeepTheirContent ==
    /\ [](\A t \in NoteTitles :
             Listed(t) => read_note(notes_files, index_notes, t) = PyStr(lastOp.written[t]))
    /\ [][\A t \in NoteTitles :
             (Listed(t) /\ t # lastOp'.title) =>
                 read_note(notes_files', index_notes', t)
                     = read_note(notes_files, index_notes, t)]_vars
====
